---- MODULE Spec2Model ----
(***************************************************************************)
(* Delivery Intelligence / Trend Analysis engine of voapps-tools           *)
(* (src/trendAnalyzer.js, generateTrendAnalysis and its helpers).          *)
(*                                                                         *)
(* One invocation of generateTrendAnalysis is a pipeline:                  *)
(*   LoadRows -> EnrichAndSort -> FoldRow* -> BuildDecayCurve ->           *)
(*   BuildRollups -> ClassifyNumbers -> BuildConsecRuns -> WriteWorkbook   *)
(* Time is counted in hours (the code's milliseconds, divided by 3600000); *)
(* a rate or a probability is the exact fraction num/den the code divides. *)
(***************************************************************************)
EXTENDS Integers, Sequences, FiniteSets, TLC

VARIABLES
  csvRows,                \* the row objects handed to the analysis
  minConsecUnsuccessful,  \* threshold parameter
  minRunSpanDays,         \* threshold parameter
  pc,                     \* position of the invocation in the pipeline
  error,                  \* message of the Error thrown, "" if none
  validRows,              \* rows kept by the filter, enriched and sorted
  idx,                    \* number of rows of validRows the fold has processed
  numberData,             \* number -> NumberProfile
  decayCurve,             \* the 10 decay buckets
  globalHourlyStats,      \* hour -> {successful, unsuccessful, total}
  accountStats,           \* account id -> entity statistics
  messageStats,           \* message id -> entity statistics
  callerStats,            \* caller number -> entity statistics
  dailyStats,             \* day of week -> {successful, unsuccessful, total}
  numberSummaryArray,     \* per-number summaries, in classification order
  health,                 \* healthy/degrading/toxic/neverDelivered counts, grade
  consecRuns,             \* the consecutive-runs list
  result,                 \* the value returned to the caller
  hc,                     \* a direct call of a helper function: arguments and result
  fileRows,               \* the rows of the CSV file, <<>> for an array of row objects
  filePos,                \* number of rows of the file the parser has delivered
  cur,                    \* the invocation whose locals the variables above hold
  other,                  \* the locals of the other invocation, suspended or over
  jobs,                   \* the server's job registry: job_id -> job (server.js)
  cancelResponse          \* the last /api/cancel request and the status it was answered with

vars == <<csvRows, minConsecUnsuccessful, minRunSpanDays, pc, error, validRows,
          idx, numberData, decayCurve, globalHourlyStats, accountStats,
          messageStats, callerStats, dailyStats, numberSummaryArray, health,
          consecRuns, result, hc, fileRows, filePos, cur, other, jobs,
          cancelResponse>>

---------------------------------------------------------------------------
(* Bounds of the model *)

\* longest input of the general specification
MaxRows == 3
\* longest input of the run-detector specification (one number, parseable dates)
MaxRunRows == 7
\* longest input of the decay-curve specification (one number, one row a day)
MaxDecayRows == 11
\* largest totalAttempts / consecutiveFailures handed to classifyTNHealth directly
MaxClassifyCount == 10
\* latest timestamp of the run-detector specification, in half days
MaxRunTick == 2
\* longest input of the specification that runs the analysis twice
MaxTwiceRows == 2
\* size of the list whose percentages are handed to calculateListGrade directly
MaxGradeNumbers == 20
\* longest input of the specification with thresholds below 1
MaxThresholdRows == 2
\* largest count of one day handed to getDayUsagePattern directly
MaxDayCount == 4
\* longest input of the specification with message and caller columns
MaxScoreRows == 4
\* longest input of an invocation of the two-invocation specification
MaxConcurrentRows == 2
\* rows of an analysis whose number fields are written in several forms
MaxRawRows == 2
\* longest input of the rollup specification
MaxRollupRows == 3

---------------------------------------------------------------------------
(* Values *)

\* new Date(x).getTime() of an unparseable x; every parseable date is >= 0
NaN == -1
\* null (lastSuccessTimestamp: null, maxDate = null)
Null == -2
\* hours in a day: the code's 1000 * 60 * 60 * 24 milliseconds
HoursPerDay == 24

Numbers == {"5551234567", "5559876543"}

SuccessText == "Successfully delivered"
FailureText == "Unsuccessful delivery attempt"

\* voapps_timestamp strings: absent/empty, whitespace only, not a date,
\* or "1970-01-<day+1> <hour>:00:00 UTC"
TsAbsent == [kind |-> "absent", day |-> 0, hour |-> 0]
TsBlank == [kind |-> "blank", day |-> 0, hour |-> 0]
TsGarbage == [kind |-> "garbage", day |-> 0, hour |-> 0]
TsIso(d, h) == [kind |-> "iso", day |-> d, hour |-> h]

\* a row object; message_id, caller_number and account_id are "" when the
\* column is absent
RowOf(n, r, t, m, c, a) ==
  [number |-> n, voapps_result |-> r, voapps_timestamp |-> t,
   message_id |-> m, caller_number |-> c, account_id |-> a]

RowWith(n, r, t, m, c) == RowOf(n, r, t, m, c, "")

Row(n, r, t) == RowWith(n, r, t, "", "")

\* JavaScript truthiness of a string field ("" stands for absent, null or empty)
Truthy(s) == s # ""
TsTruthy(t) == t.kind # "absent"

\* String(x).trim().toLowerCase() on the result texts the model uses
TrimLower(s) ==
  CASE s = "Successfully delivered" -> "successfully delivered"
    [] s = " SUCCESSFULLY DELIVERED " -> "successfully delivered"
    [] s = "Unsuccessful delivery attempt" -> "unsuccessful delivery attempt"
    [] s = "Voicemail full" -> "voicemail full"
    [] s = "Not a wireless number" -> "not a wireless number"
    [] OTHER -> s

\* new Date(voapps_timestamp).getTime(), in hours
ParseDate(t) == IF t.kind = "iso" THEN t.day * HoursPerDay + t.hour ELSE NaN

\* voapps_timestamp.trim() is non-empty
TsTrimNonEmpty(t) == t.kind \in {"garbage", "iso"}

\* Date.getHours() / Date.getDay(); day 0 of the model is a Thursday
GetHours(d) == IF d = NaN THEN NaN ELSE d % HoursPerDay
GetDay(d) == IF d = NaN THEN NaN ELSE ((d \div HoursPerDay) + 4) % 7

Min(a, b) == IF a <= b THEN a ELSE b

RECURSIVE SumSeq(_)
SumSeq(s) == IF s = <<>> THEN 0 ELSE s[1] + SumSeq(Tail(s))

Max(a, b) == IF a >= b THEN a ELSE b

\* the sum of a histogram (distribution.reduce)
RECURSIVE SumOf(_, _)
SumOf(counts, keys) ==
  IF keys = {} THEN 0
  ELSE LET k == CHOOSE x \in keys : TRUE
       IN counts[k] + SumOf(counts, keys \ {k})

\* a number that may be NaN
Num(v) == [nan |-> FALSE, v |-> v]
NumNaN == [nan |-> TRUE, v |-> 0]

\* a quotient num/den as the code computes it; den = 0 gives NaN (0/0)
Frac(n, d) == [num |-> n, den |-> d]
FracZero == Frac(0, 1)

\* indices of keys in the order of a stable sort, largest key first
\* (arr.sort((a, b) => b.key - a.key))
RECURSIVE SortedIndicesDesc(_)
SortedIndicesDesc(keys) ==
  IF keys = <<>> THEN <<>>
  ELSE LET n == Len(keys)
           rest == SortedIndicesDesc(SubSeq(keys, 1, n - 1))
           k == Cardinality({j \in 1..Len(rest) : keys[rest[j]] >= keys[n]})
       IN SubSeq(rest, 1, k) \o <<n>> \o SubSeq(rest, k + 1, Len(rest))

---------------------------------------------------------------------------
(* Input validation, enrichment and sort *)

IsValidRow(row) ==
  Truthy(row.number) /\ Truthy(row.voapps_result) /\ TsTruthy(row.voapps_timestamp)

\* mutant: the enrichment trims voapps_timestamp in place
EnrichRow_TrimInPlace(row) ==
  LET norm == TrimLower(row.voapps_result) IN
  [number |-> row.number,
   voapps_result |-> row.voapps_result,
   message_id |-> row.message_id,
   caller_number |-> row.caller_number,
   account_id |-> row.account_id,
   voapps_timestamp |-> IF row.voapps_timestamp.kind = "blank" THEN TsAbsent
                        ELSE row.voapps_timestamp,
   parsedDate |-> ParseDate(row.voapps_timestamp),
   voapps_result_normalized |-> norm,
   isSuccess |-> (norm = "successfully delivered"),
   isDeliveryAttempt |-> TsTrimNonEmpty(row.voapps_timestamp)]

EnrichRow(row) ==
  LET norm == TrimLower(row.voapps_result) IN
  [number |-> row.number,
   voapps_result |-> row.voapps_result,
   message_id |-> row.message_id,
   caller_number |-> row.caller_number,
   account_id |-> row.account_id,
   voapps_timestamp |-> row.voapps_timestamp,
   parsedDate |-> ParseDate(row.voapps_timestamp),
   voapps_result_normalized |-> norm,
   isSuccess |-> (norm = "successfully delivered"),
   isDeliveryAttempt |-> TsTrimNonEmpty(row.voapps_timestamp)]

EnrichAll(rows) == [k \in 1..Len(rows) |-> EnrichRow(rows[k])]

\* Array.prototype.sort is stable: a row goes after the rows whose date is
\* not later than its own
RECURSIVE StableSortByDate(_)
StableSortByDate(s) ==
  IF s = <<>> THEN <<>>
  ELSE LET n == Len(s)
           rest == StableSortByDate(SubSeq(s, 1, n - 1))
           r == s[n]
           k == Cardinality({j \in 1..Len(rest) : rest[j].parsedDate <= r.parsedDate})
       IN SubSeq(rest, 1, k) \o <<r>> \o SubSeq(rest, k + 1, Len(rest))

\* validRows.sort((a, b) => a.parsedDate - b.parsedDate).  With an Invalid Date
\* among the rows the comparator returns NaN for some pairs and is not a
\* consistent comparison function: the order is then implementation-defined,
\* any permutation of the rows.
SortOutcomes(s) ==
  IF \A k \in 1..Len(s) : s[k].parsedDate # NaN
  THEN {StableSortByDate(s)}
  ELSE {[k \in 1..Len(s) |-> s[p[k]]] : p \in Permutations(1..Len(s))}

\* maxDate of the date-range loop, Null if no row has a parseable date
MaxDate(rows) ==
  LET ds == {rows[k].parsedDate : k \in 1..Len(rows)} \ {NaN} IN
  IF ds = {} THEN Null ELSE CHOOSE d \in ds : \A e \in ds : e <= d

\* maxDate.getTime() - 14 * 24 * 60 * 60 * 1000, for a maxDate that is not null
FourteenDaysBefore(maxDate) == maxDate - 14 * HoursPerDay

---------------------------------------------------------------------------
(* The per-number fold *)

NewProfile(num) ==
  [number |-> num,
   attempts |-> <<>>,
   attemptIndex |-> 0,
   consecutiveFailures |-> 0,
   totalAttempts |-> 0,
   successCount |-> 0,
   unsuccessfulCount |-> 0,
   lastSuccessTimestamp |-> Null,
   messageIds |-> <<>>,
   callerNumbers |-> <<>>,
   accountIds |-> <<>>,
   hourCounts |-> [h \in 0..23 |-> 0],
   dayOfWeekCounts |-> [d \in 0..6 |-> 0],
   backToBackIdentical |-> 0,
   lastMessageId |-> ""]

\* nd.attemptIndex after the increment of a delivery attempt
BumpedIndex(nd, row) ==
  IF row.isDeliveryAttempt THEN nd.attemptIndex + 1 ELSE nd.attemptIndex

\* mutant: the attempt records attemptIndex as it was before the increment
AttemptOf_PreIncrement(nd, row) ==
  [timestamp |-> row.parsedDate,
   result |-> row.voapps_result_normalized,
   isSuccess |-> row.isSuccess,
   isDeliveryAttempt |-> row.isDeliveryAttempt,
   hour |-> GetHours(row.parsedDate),
   dayOfWeek |-> GetDay(row.parsedDate),
   message_id |-> row.message_id,
   caller_number |-> row.caller_number,
   account_id |-> row.account_id,
   attemptIndex |-> IF row.isDeliveryAttempt THEN nd.attemptIndex ELSE 0]

\* the attempt record pushed for row
AttemptOf(nd, row) ==
  [timestamp |-> row.parsedDate,
   result |-> row.voapps_result_normalized,
   isSuccess |-> row.isSuccess,
   isDeliveryAttempt |-> row.isDeliveryAttempt,
   hour |-> GetHours(row.parsedDate),
   dayOfWeek |-> GetDay(row.parsedDate),
   message_id |-> row.message_id,
   caller_number |-> row.caller_number,
   account_id |-> row.account_id,
   attemptIndex |-> IF row.isDeliveryAttempt THEN BumpedIndex(nd, row) ELSE 0]

\* arr[k]++ on a fixed-size histogram; arr[NaN]++ touches no element
Incr(arr, k) == IF k \in DOMAIN arr THEN [arr EXCEPT ![k] = @ + 1] ELSE arr

\* mutant: the unsuccessful branch does not test isDeliveryAttempt
NextConsecutiveFailures_AnyRow(nd, row) ==
  IF row.isSuccess THEN 0 ELSE nd.consecutiveFailures + 1

\* consecutiveFailures after row
NextConsecutiveFailures(nd, row) ==
  IF row.isSuccess THEN 0
  ELSE IF row.isDeliveryAttempt THEN nd.consecutiveFailures + 1
  ELSE nd.consecutiveFailures

\* mutant: the success branch does not reset attemptIndex
NextAttemptIndex_NoReset(nd, row) == BumpedIndex(nd, row)

\* attemptIndex after row
NextAttemptIndex(nd, row) ==
  IF row.isSuccess THEN 0 ELSE BumpedIndex(nd, row)

\* x || 'Unknown'
OrUnknown(x) == IF Truthy(x) THEN x ELSE "Unknown"

\* counts[key] = (counts[key] || 0) + 1 on an object used as a map
Tally(counts, key) ==
  [k \in DOMAIN counts \cup {key} |->
     IF k = key THEN (IF k \in DOMAIN counts THEN counts[k] + 1 ELSE 1)
     ELSE counts[k]]

\* one iteration of the fold loop on the profile nd of row.number
\* (lastMessageId "" is the initial null)
FoldStep(nd, row) ==
  LET attempt == AttemptOf(nd, row)
      msgId == OrUnknown(attempt.message_id)
      callerNum == OrUnknown(attempt.caller_number) IN
  [number |-> nd.number,
   attempts |-> Append(nd.attempts, attempt),
   attemptIndex |-> NextAttemptIndex(nd, row),
   consecutiveFailures |-> NextConsecutiveFailures(nd, row),
   totalAttempts |-> IF row.isDeliveryAttempt THEN nd.totalAttempts + 1
                     ELSE nd.totalAttempts,
   successCount |-> IF row.isSuccess THEN nd.successCount + 1 ELSE nd.successCount,
   unsuccessfulCount |-> IF ~row.isSuccess /\ row.isDeliveryAttempt
                         THEN nd.unsuccessfulCount + 1 ELSE nd.unsuccessfulCount,
   lastSuccessTimestamp |-> IF row.isSuccess THEN row.parsedDate
                            ELSE nd.lastSuccessTimestamp,
   hourCounts |-> IF row.isDeliveryAttempt THEN Incr(nd.hourCounts, attempt.hour)
                  ELSE nd.hourCounts,
   messageIds |-> Tally(nd.messageIds, msgId),
   callerNumbers |-> Tally(nd.callerNumbers, callerNum),
   accountIds |-> Tally(nd.accountIds, OrUnknown(attempt.account_id)),
   dayOfWeekCounts |-> IF row.isDeliveryAttempt
                       THEN Incr(nd.dayOfWeekCounts, attempt.dayOfWeek)
                       ELSE nd.dayOfWeekCounts,
   backToBackIdentical |-> IF Truthy(nd.lastMessageId) /\ nd.lastMessageId = msgId
                           THEN nd.backToBackIdentical + 1
                           ELSE nd.backToBackIdentical,
   lastMessageId |-> msgId]

ProfileOf(nData, num) == IF num \in DOMAIN nData THEN nData[num] ELSE NewProfile(num)

FoldInto(nData, row) ==
  [n \in DOMAIN nData \cup {row.number} |->
     IF n = row.number THEN FoldStep(ProfileOf(nData, n), row) ELSE nData[n]]

\* the keys of numberData in insertion order (for num in numberData); the
\* numbers of the model exceed 2^32 - 2, so none is an array index
RECURSIVE KeyOrder(_)
KeyOrder(rows) ==
  IF rows = <<>> THEN <<>>
  ELSE LET before == KeyOrder(SubSeq(rows, 1, Len(rows) - 1))
           num == rows[Len(rows)].number
       IN IF \E k \in 1..Len(before) : before[k] = num THEN before
          ELSE Append(before, num)

---------------------------------------------------------------------------
(* Success probability by attempt index *)

\* mutant: the bucket key is not capped at 10
BucketOf_NoCap(attempt) == attempt.attemptIndex

\* Math.min(attempt.attemptIndex, 10)
BucketOf(attempt) == Min(attempt.attemptIndex, 10)

\* the delivery attempts of one number that fall in bucket b
\* (successful ones only when succOnly)
InBucket(attempts, b, succOnly) ==
  Cardinality({k \in 1..Len(attempts) :
                 /\ attempts[k].isDeliveryAttempt
                 /\ BucketOf(attempts[k]) = b
                 /\ (succOnly => attempts[k].isSuccess)})

RECURSIVE BucketCount(_, _, _, _)
BucketCount(nData, keys, b, succOnly) ==
  IF keys = <<>> THEN 0
  ELSE InBucket(nData[keys[1]].attempts, b, succOnly)
       + BucketCount(nData, Tail(keys), b, succOnly)

\* attemptStats[b], or the default { successful: 0, total: 0 }
AttemptStats(nData, keys, b) ==
  [successful |-> BucketCount(nData, keys, b, TRUE),
   total |-> BucketCount(nData, keys, b, FALSE)]

\* the bucket's attemptIndex field: i, or '10+' for the last one
BucketLabel(i) ==
  IF i = 10 THEN "10+"
  ELSE <<"1", "2", "3", "4", "5", "6", "7", "8", "9">>[i]

\* mutant: the emitting loop runs over the keys 0..9
DecayBucket_FromZero(nData, keys, i) ==
  LET stats == AttemptStats(nData, keys, i - 1) IN
  [attemptIndex |-> BucketLabel(i),
   total |-> stats.total,
   successful |-> stats.successful,
   probability |-> IF stats.total > 0 THEN Frac(stats.successful, stats.total)
                   ELSE FracZero]

DecayBucket(nData, keys, i) ==
  LET stats == AttemptStats(nData, keys, i) IN
  [attemptIndex |-> BucketLabel(i),
   total |-> stats.total,
   successful |-> stats.successful,
   probability |-> IF stats.total > 0 THEN Frac(stats.successful, stats.total)
                   ELSE FracZero]

DecayCurveOf(nData, keys) == [i \in 1..10 |-> DecayBucket(nData, keys, i)]

---------------------------------------------------------------------------
(* Global hourly rollup *)

\* the delivery attempts of all numbers made in hour h
\* (kind: "total", "successful" or "unsuccessful")
InHour(attempts, h, kind) ==
  Cardinality({k \in 1..Len(attempts) :
                 /\ attempts[k].isDeliveryAttempt
                 /\ attempts[k].hour = h
                 /\ (kind = "successful" => attempts[k].isSuccess)
                 /\ (kind = "unsuccessful" => ~attempts[k].isSuccess)})

RECURSIVE HourCount(_, _, _, _)
HourCount(nData, keys, h, kind) ==
  IF keys = <<>> THEN 0
  ELSE InHour(nData[keys[1]].attempts, h, kind) + HourCount(nData, Tail(keys), h, kind)

GlobalHourlyStatsOf(nData, keys) ==
  [h \in 0..23 |-> [successful |-> HourCount(nData, keys, h, "successful"),
                    unsuccessful |-> HourCount(nData, keys, h, "unsuccessful"),
                    total |-> HourCount(nData, keys, h, "total")]]

\* the attempts of all numbers with their number, in the order of the two
\* nested loops (for num in numberData, for attempt of attempts)
RECURSIVE AllAttempts(_, _)
AllAttempts(nData, keys) ==
  IF keys = <<>> THEN <<>>
  ELSE [k \in 1..Len(nData[keys[1]].attempts) |->
          [num |-> keys[1], attempt |-> nData[keys[1]].attempts[k]]]
       \o AllAttempts(nData, Tail(keys))

\* the entry created for an account, a message or a caller
NewEntityStats ==
  [successful |-> 0, unsuccessful |-> 0, total |-> 0, uniqueNumbers |-> {},
   dayOfWeekCounts |-> [d \in 0..6 |-> 0]]

\* mutant: the loop does not skip the rows that are no delivery attempts
EntityStep_EveryRow(stats, num, attempt, key) ==
  LET old == IF key \in DOMAIN stats THEN stats[key] ELSE NewEntityStats
      new == [successful |-> IF attempt.isSuccess THEN old.successful + 1
                             ELSE old.successful,
              unsuccessful |-> IF attempt.isSuccess THEN old.unsuccessful
                               ELSE old.unsuccessful + 1,
              total |-> old.total + 1,
              uniqueNumbers |-> old.uniqueNumbers \cup {num},
              dayOfWeekCounts |-> Incr(old.dayOfWeekCounts, attempt.dayOfWeek)]
  IN [k \in DOMAIN stats \cup {key} |-> IF k = key THEN new ELSE stats[k]]

\* one attempt in the statistics of the entity key (an account id, a message
\* id or a caller number, 'Unknown' if empty)
EntityStep(stats, num, attempt, key) ==
  IF ~attempt.isDeliveryAttempt THEN stats
  ELSE LET old == IF key \in DOMAIN stats THEN stats[key] ELSE NewEntityStats
           new == [successful |-> IF attempt.isSuccess THEN old.successful + 1
                                  ELSE old.successful,
                   unsuccessful |-> IF attempt.isSuccess THEN old.unsuccessful
                                    ELSE old.unsuccessful + 1,
                   total |-> old.total + 1,
                   uniqueNumbers |-> old.uniqueNumbers \cup {num},
                   dayOfWeekCounts |-> Incr(old.dayOfWeekCounts, attempt.dayOfWeek)]
       IN [k \in DOMAIN stats \cup {key} |-> IF k = key THEN new ELSE stats[k]]

\* accountStats, messageStats or callerStats after the first k attempts;
\* field is the attempt's field that names the entity
RECURSIVE EntityStatsOf(_, _, _)
EntityStatsOf(items, k, field) ==
  IF k = 0 THEN <<>>
  ELSE EntityStep(EntityStatsOf(items, k - 1, field), items[k].num,
                  items[k].attempt, OrUnknown(items[k].attempt[field]))

\* dailyStats after the first k attempts
RECURSIVE DailyStatsOf(_, _)
DailyStatsOf(items, k) ==
  IF k = 0 THEN [d \in 0..6 |-> [successful |-> 0, unsuccessful |-> 0, total |-> 0]]
  ELSE LET before == DailyStatsOf(items, k - 1)
           attempt == items[k].attempt
           d == attempt.dayOfWeek
       IN IF ~attempt.isDeliveryAttempt THEN before
          ELSE [before EXCEPT
                  ![d] = [successful |-> IF attempt.isSuccess THEN @.successful + 1
                                         ELSE @.successful,
                          unsuccessful |-> IF attempt.isSuccess THEN @.unsuccessful
                                           ELSE @.unsuccessful + 1,
                          total |-> @.total + 1]]

\* globalHourlyStats[h].total++ with h = NaN reads a property of undefined
RollupThrows(nData) ==
  \E n \in DOMAIN nData : \E k \in 1..Len(nData[n].attempts) :
     nData[n].attempts[k].isDeliveryAttempt /\ nData[n].attempts[k].hour = NaN

---------------------------------------------------------------------------
(* Day-of-week usage pattern *)

dayNames ==
  <<"Sunday", "Monday", "Tuesday", "Wednesday", "Thursday", "Friday", "Saturday">>

\* the names of the days i = from..6 that satisfy used, in order
RECURSIVE DaysFrom(_, _)
DaysFrom(used, from) ==
  IF from > 6 THEN <<>>
  ELSE (IF from \in used THEN <<dayNames[from + 1]>> ELSE <<>>) \o DaysFrom(used, from + 1)

\* mutant: a day with exactly 10% of the total counts as used
getDayUsagePattern_AtLeastTenPct(dayOfWeekCounts) ==
  LET total == SumOf(dayOfWeekCounts, 0..6)
      usedDays == {i \in 0..6 : dayOfWeekCounts[i] * 10 >= total}
      workdays == usedDays \ {0}
  IN IF Cardinality(workdays) <= 2 /\ total > 0
     THEN [limited |-> TRUE, days |-> DaysFrom(workdays, 0)]
     ELSE [limited |-> FALSE, days |-> DaysFrom(usedDays, 0)]

\* getDayUsagePattern; count > total * 0.1 is 10 * count > total for the
\* integer counts of the histogram
getDayUsagePattern(dayOfWeekCounts) ==
  LET total == SumOf(dayOfWeekCounts, 0..6)
      usedDays == {i \in 0..6 : dayOfWeekCounts[i] * 10 > total}
      workdays == usedDays \ {0}
  IN IF Cardinality(workdays) <= 2 /\ total > 0
     THEN [limited |-> TRUE, days |-> DaysFrom(workdays, 0)]
     ELSE [limited |-> FALSE, days |-> DaysFrom(usedDays, 0)]


\* comparisons of the quotient r with the literals of classifyTNHealth
RateLT(r, n, d) == r.num * d < n * r.den
RateIsZero(r) == r.num = 0

\* mutant: the Degrading rules are tested before the Toxic rules
classifyTNHealth_DegradingFirst(successRate, consecutiveFailures, totalAttempts, recentSuccess14Days) ==
  IF RateLT(successRate, 1, 4) /\ consecutiveFailures >= 2 THEN "Degrading"
  ELSE IF RateLT(successRate, 1, 5) /\ ~recentSuccess14Days THEN "Degrading"
  ELSE IF consecutiveFailures >= 3 THEN "Degrading"
  ELSE IF RateLT(successRate, 1, 10) /\ consecutiveFailures >= 4 THEN "Toxic"
  ELSE IF consecutiveFailures >= 6 THEN "Toxic"
  ELSE IF totalAttempts >= 5 /\ RateIsZero(successRate) THEN "Toxic"
  ELSE "Healthy"

\* mutant: the second Degrading rule takes a success rate of exactly 0.20
classifyTNHealth_FifthInclusive(successRate, consecutiveFailures, totalAttempts, recentSuccess14Days) ==
  IF RateLT(successRate, 1, 10) /\ consecutiveFailures >= 4 THEN "Toxic"
  ELSE IF consecutiveFailures >= 6 THEN "Toxic"
  ELSE IF totalAttempts >= 5 /\ RateIsZero(successRate) THEN "Toxic"
  ELSE IF RateLT(successRate, 1, 4) /\ consecutiveFailures >= 2 THEN "Degrading"
  ELSE IF ~RateLT(Frac(1, 5), successRate.num, successRate.den) /\ ~recentSuccess14Days
  THEN "Degrading"
  ELSE IF consecutiveFailures >= 3 THEN "Degrading"
  ELSE "Healthy"

classifyTNHealth(successRate, consecutiveFailures, totalAttempts, recentSuccess14Days) ==
  IF RateLT(successRate, 1, 10) /\ consecutiveFailures >= 4 THEN "Toxic"
  ELSE IF consecutiveFailures >= 6 THEN "Toxic"
  ELSE IF totalAttempts >= 5 /\ RateIsZero(successRate) THEN "Toxic"
  ELSE IF RateLT(successRate, 1, 4) /\ consecutiveFailures >= 2 THEN "Degrading"
  ELSE IF RateLT(successRate, 1, 5) /\ ~recentSuccess14Days THEN "Degrading"
  ELSE IF consecutiveFailures >= 3 THEN "Degrading"
  ELSE "Healthy"

\* (count / uniqueNumbers) * 100 compared with x; 0/0 is NaN and compares false
PctGE(p, x) == p.den # 0 /\ p.num * 100 >= x * p.den
PctLT(p, x) == p.den # 0 /\ p.num * 100 < x * p.den

\* mutant: grade A admits a toxic share of exactly 5%
calculateListGrade_ToxicAtFive(healthyPct, degradingPct, toxicPct, neverDeliveredPct) ==
  IF PctGE(healthyPct, 80)
     /\ toxicPct.den # 0 /\ toxicPct.num * 100 <= 5 * toxicPct.den
     /\ PctLT(neverDeliveredPct, 10) THEN "A"
  ELSE IF PctGE(healthyPct, 60) /\ PctLT(toxicPct, 10) /\ PctLT(neverDeliveredPct, 20)
       THEN "B"
  ELSE IF PctGE(healthyPct, 40) /\ PctLT(toxicPct, 20) THEN "C"
  ELSE "D"

calculateListGrade(healthyPct, degradingPct, toxicPct, neverDeliveredPct) ==
  IF PctGE(healthyPct, 80) /\ PctLT(toxicPct, 5) /\ PctLT(neverDeliveredPct, 10) THEN "A"
  ELSE IF PctGE(healthyPct, 60) /\ PctLT(toxicPct, 10) /\ PctLT(neverDeliveredPct, 20)
       THEN "B"
  ELSE IF PctGE(healthyPct, 40) /\ PctLT(toxicPct, 20) THEN "C"
  ELSE "D"

SuccessRate(nd) ==
  IF nd.totalAttempts > 0 THEN Frac(nd.successCount, nd.totalAttempts) ELSE FracZero

\* nd.lastSuccessTimestamp && fourteenDaysAgo && nd.lastSuccessTimestamp >= fourteenDaysAgo,
\* as a truth value (an Invalid Date is an object, and compares false)
\* fourteenDaysAgo is null exactly when maxDate is
RecentSuccess(nd, maxDate) ==
  /\ nd.lastSuccessTimestamp # Null
  /\ maxDate # Null
  /\ nd.lastSuccessTimestamp # NaN
  /\ nd.lastSuccessTimestamp >= FourteenDaysBefore(maxDate)

\* Real numbers of the score are counted in thousandths (TLC's integers have
\* 32 bits)
Milli == 1000

\* Math.log2(n) in thousandths, for the counts the model reaches
Log2Milli(n) ==
  <<
    0, 1000, 1585, 2000, 2322, 2585, 2807, 3000,
    3170, 3322, 3459, 3585, 3700, 3807, 3907, 4000,
    4087, 4170, 4248, 4322, 4392, 4459, 4524, 4585,
    4644, 4700, 4755, 4807, 4858, 4907, 4954, 5000
  >>[n]

RECURSIVE EntropySum(_, _, _)
\* the sum over the positive entries of -p * log2(p), times total
EntropySum(counts, keys, total) ==
  IF keys = {} THEN 0
  ELSE LET k == CHOOSE x \in keys : TRUE
           term == IF counts[k] > 0
                   THEN counts[k] * (Log2Milli(total) - Log2Milli(counts[k]))
                   ELSE 0
       IN term + EntropySum(counts, keys \ {k}, total)

\* calculateEntropy(distribution), in thousandths
calculateEntropy(distribution) ==
  LET total == SumOf(distribution, DOMAIN distribution) IN
  IF total = 0 THEN 0
  ELSE EntropySum(distribution, DOMAIN distribution, total) \div total

\* the largest count of a map, 0 for an empty one (topMsgCount, topCallerCount)
TopCount(counts) ==
  IF DOMAIN counts = {} THEN 0
  ELSE LET k == CHOOSE x \in DOMAIN counts : \A y \in DOMAIN counts : counts[y] <= counts[x]
       IN counts[k]

\* (uniqueKeys > 1 ? (1 - topCount / totalAttempts) * 100 : 0) * weight / 100,
\* in thousandths, for totalAttempts > 0
DiversityComponent(counts, totalAttempts, weight) ==
  IF Cardinality(DOMAIN counts) > 1
  THEN (weight * Milli * (totalAttempts - TopCount(counts))) \div totalAttempts
  ELSE 0

\* Math.round(x) of x thousandths: the nearest integer, halves upwards
RoundMilli(x) == (x + Milli \div 2) \div Milli

\* mutant: the rounded sum is not clamped
VariabilityScore_NoClamp(nd) ==
  IF nd.totalAttempts > 1
  THEN RoundMilli(
         DiversityComponent(nd.messageIds, nd.totalAttempts, 30)
         + DiversityComponent(nd.callerNumbers, nd.totalAttempts, 20)
         + (calculateEntropy(nd.dayOfWeekCounts) * 25 * Milli) \div Log2Milli(7)
         + (calculateEntropy(nd.hourCounts) * 15 * Milli) \div Log2Milli(24)
         + (10 * Milli * (nd.totalAttempts - 1 - nd.backToBackIdentical))
             \div (nd.totalAttempts - 1))
  ELSE 50

\* variabilityScore of a number
VariabilityScore(nd) ==
  IF nd.totalAttempts > 1
  THEN LET msgComponent == DiversityComponent(nd.messageIds, nd.totalAttempts, 30)
           callerComponent == DiversityComponent(nd.callerNumbers, nd.totalAttempts, 20)
           dayComponent ==
             (calculateEntropy(nd.dayOfWeekCounts) * 25 * Milli) \div Log2Milli(7)
           hourComponent ==
             (calculateEntropy(nd.hourCounts) * 15 * Milli) \div Log2Milli(24)
           noBackToBackBonus ==
             (10 * Milli * (nd.totalAttempts - 1 - nd.backToBackIdentical))
               \div (nd.totalAttempts - 1)
       IN Max(0, Min(100, RoundMilli(msgComponent + callerComponent + dayComponent
                                     + hourComponent + noBackToBackBonus)))
  ELSE 50

NumberSummary(nd, maxDate) ==
  [number |-> nd.number,
   totalAttempts |-> nd.totalAttempts,
   successful |-> nd.successCount,
   unsuccessful |-> nd.unsuccessfulCount,
   successRate |-> SuccessRate(nd),
   attemptIndex |-> nd.attemptIndex,
   consecutiveFailures |-> nd.consecutiveFailures,
   tnHealth |-> classifyTNHealth(SuccessRate(nd), nd.consecutiveFailures,
                                 nd.totalAttempts, RecentSuccess(nd, maxDate)),
   neverDelivered |-> (nd.successCount = 0),
   variabilityScore |-> VariabilityScore(nd),
   uniqueMsgCount |-> Cardinality(DOMAIN nd.messageIds),
   uniqueCallerCount |-> Cardinality(DOMAIN nd.callerNumbers),
   backToBackIdentical |-> nd.backToBackIdentical,
   lastSuccessTimestamp |-> nd.lastSuccessTimestamp]

\* the summaries in key order, then sorted by totalAttempts, largest first
NumberSummaries(nData, keys, maxDate) ==
  LET raw == [k \in 1..Len(keys) |-> NumberSummary(nData[keys[k]], maxDate)]
      order == SortedIndicesDesc([k \in 1..Len(raw) |-> raw[k].totalAttempts])
  IN [k \in 1..Len(raw) |-> raw[order[k]]]

CountWhere(summaries, label) ==
  Cardinality({k \in 1..Len(summaries) : summaries[k].tnHealth = label})

HealthOf(summaries, uniqueNumbers) ==
  LET healthyCount == CountWhere(summaries, "Healthy")
      degradingCount == CountWhere(summaries, "Degrading")
      toxicCount == CountWhere(summaries, "Toxic")
      neverDeliveredCount ==
        Cardinality({k \in 1..Len(summaries) : summaries[k].neverDelivered})
  IN [healthyCount |-> healthyCount,
      degradingCount |-> degradingCount,
      toxicCount |-> toxicCount,
      neverDeliveredCount |-> neverDeliveredCount,
      listGrade |-> calculateListGrade(Frac(healthyCount, uniqueNumbers),
                                       Frac(degradingCount, uniqueNumbers),
                                       Frac(toxicCount, uniqueNumbers),
                                       Frac(neverDeliveredCount, uniqueNumbers))]

---------------------------------------------------------------------------
(* Consecutive unsuccessful runs *)

\* runStart && runEnd ? (runEnd - runStart) / (1000 * 60 * 60 * 24) : 0, kept in
\* hours.  A Date object is truthy even when invalid, and then the difference
\* is NaN; an undefined timestamp (Null) is falsy.
SpanOf(runStart, runEnd) ==
  IF runStart = Null \/ runEnd = Null THEN Num(0)
  ELSE IF runStart = NaN \/ runEnd = NaN THEN NumNaN
  ELSE Num(runEnd - runStart)

\* spanDays >= minSpanDays (false for NaN)
SpanAtLeast(span, minSpanDays) == ~span.nan /\ span.v >= minSpanDays * HoursPerDay

RunRecord(num, count, runStart, runEnd, tnHealth) ==
  [number |-> num,
   count |-> count,
   runStart |-> runStart,
   runEnd |-> runEnd,
   spanDays |-> SpanOf(runStart, runEnd),
   tnHealth |-> tnHealth]

RunOf(num, currentRun, tnHealth) ==
  RunRecord(num, Len(currentRun), currentRun[1].timestamp,
            currentRun[Len(currentRun)].timestamp, tnHealth)

\* mutant: a long run does not qualify regardless of its span
InteriorRunKept_SpanOnly(currentRun, minConsec, minSpanDays) ==
  /\ Len(currentRun) >= minConsec
  /\ SpanAtLeast(SpanOf(currentRun[1].timestamp,
                        currentRun[Len(currentRun)].timestamp), minSpanDays)

\* a run closed by a Success is pushed
InteriorRunKept(currentRun, minConsec, minSpanDays) ==
  /\ Len(currentRun) >= minConsec
  /\ \/ SpanAtLeast(SpanOf(currentRun[1].timestamp,
                           currentRun[Len(currentRun)].timestamp), minSpanDays)
     \/ Len(currentRun) >= 6

\* mutant: the final run check applies the span rule of the interior runs
FinalRunKept_SpanRule(currentRun, minConsec, minSpanDays) ==
  /\ Len(currentRun) >= minConsec
  /\ \/ SpanAtLeast(SpanOf(currentRun[1].timestamp,
                           currentRun[Len(currentRun)].timestamp), minSpanDays)
     \/ Len(currentRun) >= 6

\* the run left open at the end of the attempts is pushed
FinalRunKept(currentRun, minConsec, minSpanDays) ==
  Len(currentRun) >= minConsec

\* currentRun[0].timestamp of an empty run reads a property of undefined
RunReadThrows(currentRun, minConsec) ==
  Len(currentRun) >= minConsec /\ Len(currentRun) = 0

\* the scan of one number after its first k attempts: the open run, the runs
\* pushed, and whether a TypeError was thrown
RECURSIVE ScanAttempts(_, _, _, _, _, _)
ScanAttempts(num, attempts, k, minConsec, minSpanDays, tnHealth) ==
  IF k = 0 THEN [currentRun |-> <<>>, runs |-> <<>>, threw |-> FALSE]
  ELSE LET prev == ScanAttempts(num, attempts, k - 1, minConsec, minSpanDays, tnHealth)
           attempt == attempts[k]
       IN IF prev.threw THEN prev
          ELSE IF ~attempt.isSuccess
          THEN [prev EXCEPT !.currentRun = Append(@, attempt)]
          ELSE IF RunReadThrows(prev.currentRun, minConsec)
          THEN [prev EXCEPT !.threw = TRUE]
          ELSE [currentRun |-> <<>>,
                runs |-> IF InteriorRunKept(prev.currentRun, minConsec, minSpanDays)
                         THEN Append(prev.runs, RunOf(num, prev.currentRun, tnHealth))
                         ELSE prev.runs,
                threw |-> FALSE]

\* the rows the scan of one number pushes, final run check included
ScanNumber(num, attempts, minConsec, minSpanDays, tnHealth) ==
  LET st == ScanAttempts(num, attempts, Len(attempts), minConsec, minSpanDays, tnHealth)
  IN IF st.threw THEN st
     ELSE IF RunReadThrows(st.currentRun, minConsec) THEN [st EXCEPT !.threw = TRUE]
     ELSE IF FinalRunKept(st.currentRun, minConsec, minSpanDays)
     THEN [st EXCEPT !.runs = Append(@, RunOf(num, st.currentRun, tnHealth))]
     ELSE st

\* ns?.tnHealth || 'Unknown' for the summary of num
HealthLabelOf(summaries, num) ==
  IF \E k \in 1..Len(summaries) : summaries[k].number = num
  THEN summaries[CHOOSE k \in 1..Len(summaries) : summaries[k].number = num].tnHealth
  ELSE "Unknown"

\* the scan over all numbers, in key order
RECURSIVE ScanAll(_, _, _, _, _)
ScanAll(nData, keys, summaries, minConsec, minSpanDays) ==
  IF keys = <<>> THEN [runs |-> <<>>, threw |-> FALSE]
  ELSE LET n == Len(keys)
           before == ScanAll(nData, SubSeq(keys, 1, n - 1), summaries,
                             minConsec, minSpanDays)
           this == ScanNumber(keys[n], nData[keys[n]].attempts, minConsec,
                              minSpanDays, HealthLabelOf(summaries, keys[n]))
       IN IF before.threw THEN before
          ELSE [runs |-> before.runs \o this.runs, threw |-> this.threw]

\* attempts.slice(-k): the last k attempts, all of them for k = 0
SliceLast(attempts, k) ==
  IF k <= 0 THEN attempts
  ELSE SubSeq(attempts, Max(1, Len(attempts) - k + 1), Len(attempts))

\* the row the counter-based pass pushes for the summary ns
CounterRun(nData, ns) ==
  LET recentFailures == SliceLast(nData[ns.number].attempts, ns.consecutiveFailures)
      runStart == IF recentFailures = <<>> THEN Null ELSE recentFailures[1].timestamp
      runEnd == IF recentFailures = <<>> THEN Null
                ELSE recentFailures[Len(recentFailures)].timestamp
  IN RunRecord(ns.number, ns.consecutiveFailures, runStart, runEnd, ns.tnHealth)

\* mutant: the counter-based pass does not look for an existing row
RECURSIVE CounterPass_NoExistingCheck(_, _, _, _, _)
CounterPass_NoExistingCheck(runs, nData, summaries, k, minConsec) ==
  IF k = 0 THEN runs
  ELSE LET before == CounterPass_NoExistingCheck(runs, nData, summaries, k - 1, minConsec)
           ns == summaries[k]
       IN IF ns.consecutiveFailures >= minConsec
          THEN Append(before, CounterRun(nData, ns))
          ELSE before

\* the counter-based pass over the first k summaries
RECURSIVE CounterPass(_, _, _, _, _)
CounterPass(runs, nData, summaries, k, minConsec) ==
  IF k = 0 THEN runs
  ELSE LET before == CounterPass(runs, nData, summaries, k - 1, minConsec)
           ns == summaries[k]
       IN IF /\ ns.consecutiveFailures >= minConsec
             /\ ~\E j \in 1..Len(before) : before[j].number = ns.number
          THEN Append(before, CounterRun(nData, ns))
          ELSE before

\* consecRuns.sort((a, b) => b.count - a.count)
SortRuns(runs) ==
  LET order == SortedIndicesDesc([k \in 1..Len(runs) |-> runs[k].count])
  IN [k \in 1..Len(runs) |-> runs[order[k]]]

ConsecRunsOf(nData, keys, summaries, minConsec, minSpanDays) ==
  LET scan == ScanAll(nData, keys, summaries, minConsec, minSpanDays)
  IN SortRuns(CounterPass(scan.runs, nData, summaries, Len(summaries), minConsec))

ConsecRunsThrow(nData, keys, summaries, minConsec, minSpanDays) ==
  ScanAll(nData, keys, summaries, minConsec, minSpanDays).threw

---------------------------------------------------------------------------
(* The invocation, step by step *)

\* the keys of numberData once the fold has processed all of validRows
Keys == KeyOrder(SubSeq(validRows, 1, idx))

NoHealth ==
  [healthyCount |-> 0, degradingCount |-> 0, toxicCount |-> 0,
   neverDeliveredCount |-> 0, listGrade |-> ""]

NoCall ==
  [successRate |-> FracZero, consecutiveFailures |-> 0, totalAttempts |-> 0,
   recentSuccess14Days |-> FALSE, label |-> ""]

\* no other invocation
NoFrame == [id |-> 0]

\* const jobs = new Map()
NoJobs == <<>>

\* no /api/cancel request has been answered
NoResponse == [job_id |-> "", status |-> 0]

\* the state of an invocation that was handed rows, minConsec and minSpanDays
Started(rows, minConsec, minSpanDays) ==
  /\ csvRows = rows
  /\ minConsecUnsuccessful = minConsec
  /\ minRunSpanDays = minSpanDays
  /\ pc = "load"
  /\ error = ""
  /\ validRows = <<>>
  /\ idx = 0
  /\ numberData = <<>>
  /\ decayCurve = <<>>
  /\ globalHourlyStats = <<>>
  /\ accountStats = <<>>
  /\ messageStats = <<>>
  /\ callerStats = <<>>
  /\ dailyStats = <<>>
  /\ numberSummaryArray = <<>>
  /\ health = NoHealth
  /\ consecRuns = <<>>
  /\ result = <<>>
  /\ hc = NoCall
  /\ fileRows = <<>>
  /\ filePos = 0
  /\ cur = 1
  /\ other = NoFrame
  /\ jobs = NoJobs
  /\ cancelResponse = NoResponse

\* mutant: the empty-input check is missing
LoadRows_NoEmptyCheck ==
  /\ pc = "load"
  /\ pc' = "enrich"
  /\ validRows' = SelectSeq(csvRows, IsValidRow)
  /\ UNCHANGED <<fileRows, filePos, cur, other,
                 jobs, cancelResponse>>
  /\ UNCHANGED <<csvRows, minConsecUnsuccessful, minRunSpanDays, error, idx,
                 numberData, decayCurve, globalHourlyStats, accountStats,
                 messageStats, callerStats, dailyStats, numberSummaryArray,
                 health, consecRuns, result, hc>>

\* input handling: an empty input throws, the rows lacking a number, a
\* result or a timestamp are filtered out
LoadRows ==
  /\ pc = "load"
  /\ IF Len(csvRows) = 0
     THEN /\ pc' = "failed"
          /\ error' = "No data found in CSV input"
          /\ UNCHANGED validRows
     ELSE /\ pc' = "enrich"
          /\ validRows' = SelectSeq(csvRows, IsValidRow)
          /\ UNCHANGED error
  /\ UNCHANGED <<fileRows, filePos, cur, other,
                 jobs, cancelResponse>>
  /\ UNCHANGED <<csvRows, minConsecUnsuccessful, minRunSpanDays, idx, numberData,
                 decayCurve, globalHourlyStats, accountStats,
                 messageStats, callerStats, dailyStats, numberSummaryArray, health,
                 consecRuns, result, hc>>

\* the locals of the running invocation
Frame ==
  [id |-> cur, csvRows |-> csvRows, fileRows |-> fileRows, filePos |-> filePos,
   minConsecUnsuccessful |-> minConsecUnsuccessful,
   minRunSpanDays |-> minRunSpanDays, pc |-> pc, error |-> error,
   validRows |-> validRows, idx |-> idx, numberData |-> numberData,
   decayCurve |-> decayCurve, globalHourlyStats |-> globalHourlyStats,
   accountStats |-> accountStats, messageStats |-> messageStats,
   callerStats |-> callerStats, dailyStats |-> dailyStats,
   numberSummaryArray |-> numberSummaryArray, health |-> health,
   consecRuns |-> consecRuns, result |-> result]

\* the invocation of frame f has sorted its rows
PastSort(f) ==
  /\ f.id # 0
  /\ \/ f.pc \in {"fold", "rollups", "classify", "runs", "write", "done"}
     \/ f.pc = "failed" /\ f.error # "No data found in CSV input"

\* the outcomes of validRows.sort for the array rows: the sort of one engine
\* is a function of the array, so an array equal to the one the other
\* invocation sorted comes out in the same order
SortedAs(rows) ==
  IF PastSort(other) /\ rows = EnrichAll(SelectSeq(other.csvRows, IsValidRow))
  THEN {other.validRows}
  ELSE SortOutcomes(rows)

\* parse the timestamps, derive isSuccess and isDeliveryAttempt, sort by date
EnrichAndSort ==
  /\ pc = "enrich"
  /\ validRows' \in SortedAs(EnrichAll(validRows))
  /\ pc' = "fold"
  /\ UNCHANGED <<fileRows, filePos, cur, other,
                 jobs, cancelResponse>>
  /\ UNCHANGED <<csvRows, minConsecUnsuccessful, minRunSpanDays, error, idx,
                 numberData, decayCurve, globalHourlyStats, accountStats,
                 messageStats, callerStats, dailyStats, numberSummaryArray,
                 health, consecRuns, result, hc>>

\* one iteration of the number-level fold
FoldRow ==
  /\ pc = "fold"
  /\ idx < Len(validRows)
  /\ numberData' = FoldInto(numberData, validRows[idx + 1])
  /\ idx' = idx + 1
  /\ UNCHANGED <<fileRows, filePos, cur, other,
                 jobs, cancelResponse>>
  /\ UNCHANGED <<csvRows, minConsecUnsuccessful, minRunSpanDays, pc, error,
                 validRows, decayCurve, globalHourlyStats, accountStats,
                 messageStats, callerStats, dailyStats, numberSummaryArray,
                 health, consecRuns, result, hc>>

\* attemptStats and the decay curve, once the fold is over
BuildDecayCurve ==
  /\ pc = "fold"
  /\ idx = Len(validRows)
  /\ decayCurve' = DecayCurveOf(numberData, Keys)
  /\ pc' = "rollups"
  /\ UNCHANGED <<fileRows, filePos, cur, other,
                 jobs, cancelResponse>>
  /\ UNCHANGED <<csvRows, minConsecUnsuccessful, minRunSpanDays, error, validRows,
                 idx, numberData, globalHourlyStats, accountStats,
                 messageStats, callerStats, dailyStats, numberSummaryArray, health,
                 consecRuns, result, hc>>

\* the global rollups; a delivery attempt with an Invalid Date throws
BuildRollups ==
  /\ pc = "rollups"
  /\ IF RollupThrows(numberData)
     THEN /\ pc' = "failed"
          /\ error' = "TypeError: Cannot read properties of undefined (reading 'total')"
          /\ UNCHANGED <<globalHourlyStats, accountStats, messageStats, callerStats>>
     ELSE /\ pc' = "classify"
          /\ LET items == AllAttempts(numberData, Keys) IN
               /\ accountStats' = EntityStatsOf(items, Len(items), "account_id")
               /\ messageStats' = EntityStatsOf(items, Len(items), "message_id")
               /\ callerStats' = EntityStatsOf(items, Len(items), "caller_number")
          /\ globalHourlyStats' = GlobalHourlyStatsOf(numberData, Keys)
          /\ UNCHANGED error
  /\ UNCHANGED <<fileRows, filePos, cur, other,
                 jobs, cancelResponse>>
  /\ UNCHANGED <<csvRows, minConsecUnsuccessful, minRunSpanDays, validRows, idx,
                 numberData, decayCurve, dailyStats, numberSummaryArray, health,
                 consecRuns, result, hc>>

\* health label of every number, the counts and the list grade
ClassifyNumbers ==
  /\ pc = "classify"
  /\ numberSummaryArray' = NumberSummaries(numberData, Keys, MaxDate(validRows))
  /\ health' = HealthOf(numberSummaryArray', Cardinality(DOMAIN numberData))
  /\ pc' = "runs"
  /\ UNCHANGED <<fileRows, filePos, cur, other,
                 jobs, cancelResponse>>
  /\ UNCHANGED <<csvRows, minConsecUnsuccessful, minRunSpanDays, error, validRows,
                 idx, numberData, decayCurve, globalHourlyStats, accountStats,
                 messageStats, callerStats, dailyStats, consecRuns,
                 result, hc>>

\* mutant: the run scan consumes the attempts of every number (shift)
BuildConsecRuns_ShiftsAttempts ==
  /\ pc = "runs"
  /\ IF ConsecRunsThrow(numberData, Keys, numberSummaryArray,
                        minConsecUnsuccessful, minRunSpanDays)
     THEN /\ pc' = "failed"
          /\ error' = "TypeError: Cannot read properties of undefined (reading 'timestamp')"
          /\ UNCHANGED <<consecRuns, dailyStats, numberData>>
     ELSE /\ pc' = "write"
          /\ consecRuns' = ConsecRunsOf(numberData, Keys, numberSummaryArray,
                                        minConsecUnsuccessful, minRunSpanDays)
          /\ numberData' = [n \in DOMAIN numberData |->
                              [numberData[n] EXCEPT !.attempts = <<>>]]
          /\ LET items == AllAttempts(numberData', Keys) IN
               dailyStats' = DailyStatsOf(items, Len(items))
          /\ UNCHANGED error
  /\ UNCHANGED <<fileRows, filePos, cur, other,
                 jobs, cancelResponse>>
  /\ UNCHANGED <<csvRows, minConsecUnsuccessful, minRunSpanDays, validRows, idx,
                 decayCurve, globalHourlyStats, accountStats,
                 messageStats, callerStats, numberSummaryArray,
                 health, result, hc>>

\* the run scan, the counter-based addition and the sort of the runs
BuildConsecRuns ==
  /\ pc = "runs"
  /\ IF ConsecRunsThrow(numberData, Keys, numberSummaryArray,
                        minConsecUnsuccessful, minRunSpanDays)
     THEN /\ pc' = "failed"
          /\ error' = "TypeError: Cannot read properties of undefined (reading 'timestamp')"
          /\ UNCHANGED <<consecRuns, dailyStats>>
     ELSE /\ pc' = "write"
          /\ consecRuns' = ConsecRunsOf(numberData, Keys, numberSummaryArray,
                                        minConsecUnsuccessful, minRunSpanDays)
          \* the sheets of the workbook are built up to the await of writeFile;
          \* the daily sheet tallies dailyStats
          /\ LET items == AllAttempts(numberData, Keys) IN
               dailyStats' = DailyStatsOf(items, Len(items))
          /\ UNCHANGED error
  /\ UNCHANGED <<fileRows, filePos, cur, other,
                 jobs, cancelResponse>>
  /\ UNCHANGED <<csvRows, minConsecUnsuccessful, minRunSpanDays, validRows, idx,
                 numberData, decayCurve, globalHourlyStats, accountStats,
                 messageStats, callerStats, numberSummaryArray,
                 health, result, hc>>

\* the workbook is written and the result returned
WriteWorkbook ==
  /\ pc = "write"
  /\ result' = [totalRecords |-> Len(validRows),
                uniqueNumbers |-> Cardinality(DOMAIN numberData),
                listGrade |-> health.listGrade,
                healthyCount |-> health.healthyCount,
                degradingCount |-> health.degradingCount,
                toxicCount |-> health.toxicCount,
                neverDeliveredCount |-> health.neverDeliveredCount,
                consecRunsCount |-> Len(consecRuns)]
  /\ pc' = "done"
  /\ UNCHANGED <<fileRows, filePos, cur, other,
                 jobs, cancelResponse>>
  /\ UNCHANGED <<csvRows, minConsecUnsuccessful, minRunSpanDays, error, validRows,
                 idx, numberData, decayCurve, globalHourlyStats, accountStats,
                 messageStats, callerStats, dailyStats, numberSummaryArray,
                 health, consecRuns, hc>>

Next ==
  \/ LoadRows
  \/ EnrichAndSort
  \/ FoldRow
  \/ BuildDecayCurve
  \/ BuildRollups
  \/ ClassifyNumbers
  \/ BuildConsecRuns
  \/ WriteWorkbook

---------------------------------------------------------------------------
(* Inputs *)

\* all sequences over S of length at most n
SeqsUpTo(S, n) == UNION {[1..k -> S] : k \in 0..n}

\* General specification: any order of at most MaxRows rows drawn from
\*  - two numbers, the two delivery results, a timestamp that is blank or a
\*    date (day 0 at 9h, day 1 at 14h),
\*  - rows of the first number whose timestamp is not a date,
\*  - three rows that the filter drops (no number, no result, no timestamp).
GeneralRows ==
  {Row(n, r, t) : n \in Numbers, r \in {SuccessText, FailureText},
                  t \in {TsBlank, TsIso(0, 9), TsIso(1, 14)}}
  \cup {Row("5551234567", r, TsGarbage) : r \in {SuccessText, FailureText}}
  \cup {Row("", FailureText, TsIso(0, 9)),
        Row("5551234567", "", TsIso(0, 9)),
        Row("5551234567", FailureText, TsAbsent)}

Init == \E rows \in SeqsUpTo(GeneralRows, MaxRows) : Started(rows, 2, 1)

Spec == Init /\ [][Next]_vars

\* Run-detector specification: one number, delivery attempts half a day apart
\* at most, already in date order (the stable sort leaves them in place), with
\* the thresholds of the run-detection example (4, 0) and a span threshold of
\* one day.
RunTimestamp(k) == TsIso(k \div 2, (k % 2) * 12)

RunInputs ==
  UNION {{[k \in 1..n |-> Row("5551234567", res[k], RunTimestamp(tick[k]))] :
            res \in [1..n -> {SuccessText, FailureText}],
            tick \in {t \in [1..n -> 0..MaxRunTick] :
                        \A k \in 1..(n - 1) : t[k] <= t[k + 1]}} :
         n \in 0..MaxRunRows}

InitRuns == \E rows \in RunInputs : \E minSpanDays \in {0, 1} : Started(rows, 4, minSpanDays)

SpecRuns == InitRuns /\ [][Next]_vars

\* Decay-curve specification: one number, one delivery attempt a day, the
\* default thresholds.
DecayInputs ==
  UNION {{[k \in 1..n |-> Row("5551234567", res[k], TsIso(k, 9))] :
            res \in [1..n -> {SuccessText, FailureText}]} :
         n \in 0..MaxDecayRows}

InitDecay == \E rows \in DecayInputs : Started(rows, 4, 30)

SpecDecay == InitDecay /\ [][Next]_vars

\* End-to-end specification: one number, one delivery attempt on each of the
\* days 1, 2, 3, 4 and 35, the rows in any order and with any results,
\* analysed with minConsecUnsuccessful = 3 and minRunSpanDays = 2.
ExampleDays == <<1, 2, 3, 4, 35>>

ExampleInputs ==
  {[k \in 1..Len(ExampleDays) |->
      Row("5551234567", res[p[k]], TsIso(ExampleDays[p[k]], 9))] :
     p \in Permutations(1..Len(ExampleDays)),
     res \in [1..Len(ExampleDays) -> {SuccessText, FailureText}]}

InitExample == \E rows \in ExampleInputs : Started(rows, 3, 2)

SpecExample == InitExample /\ [][Next]_vars

---------------------------------------------------------------------------
(* classifyTNHealth called directly *)

\* success rates 0, 0.05, ..., 1
ClassifyInputs ==
  [successRate : {Frac(n, 20) : n \in 0..20},
   consecutiveFailures : 0..MaxClassifyCount,
   totalAttempts : 0..MaxClassifyCount,
   recentSuccess14Days : BOOLEAN,
   label : {""}]

InitClassify ==
  /\ hc \in ClassifyInputs
  /\ csvRows = <<>>
  /\ minConsecUnsuccessful = 4
  /\ minRunSpanDays = 30
  /\ pc = "call"
  /\ error = ""
  /\ validRows = <<>>
  /\ idx = 0
  /\ numberData = <<>>
  /\ decayCurve = <<>>
  /\ globalHourlyStats = <<>>
  /\ accountStats = <<>>
  /\ messageStats = <<>>
  /\ callerStats = <<>>
  /\ dailyStats = <<>>
  /\ numberSummaryArray = <<>>
  /\ health = NoHealth
  /\ consecRuns = <<>>
  /\ result = <<>>
  /\ fileRows = <<>>
  /\ filePos = 0
  /\ cur = 1
  /\ other = NoFrame
  /\ jobs = NoJobs
  /\ cancelResponse = NoResponse

ClassifyCall ==
  /\ pc = "call"
  /\ hc' = [hc EXCEPT !.label = classifyTNHealth(hc.successRate, hc.consecutiveFailures,
                                                 hc.totalAttempts, hc.recentSuccess14Days)]
  /\ pc' = "returned"
  /\ UNCHANGED <<fileRows, filePos, cur, other,
                 jobs, cancelResponse>>
  /\ UNCHANGED <<csvRows, minConsecUnsuccessful, minRunSpanDays, error, validRows,
                 idx, numberData, decayCurve, globalHourlyStats, accountStats,
                 messageStats, callerStats, dailyStats, numberSummaryArray,
                 health, consecRuns, result>>

SpecClassify == InitClassify /\ [][ClassifyCall]_vars

\* a direct call of a helper function with the arguments args
HelperCalled(args) ==
  /\ hc = args
  /\ csvRows = <<>>
  /\ minConsecUnsuccessful = 4
  /\ minRunSpanDays = 30
  /\ pc = "call"
  /\ error = ""
  /\ validRows = <<>>
  /\ idx = 0
  /\ numberData = <<>>
  /\ decayCurve = <<>>
  /\ globalHourlyStats = <<>>
  /\ accountStats = <<>>
  /\ messageStats = <<>>
  /\ callerStats = <<>>
  /\ dailyStats = <<>>
  /\ numberSummaryArray = <<>>
  /\ health = NoHealth
  /\ consecRuns = <<>>
  /\ result = <<>>
  /\ fileRows = <<>>
  /\ filePos = 0
  /\ cur = 1
  /\ other = NoFrame
  /\ jobs = NoJobs
  /\ cancelResponse = NoResponse

\* direct calls of getDayUsagePattern: every histogram of the seven days
\* (index 0 is Sunday) with counts up to MaxDayCount
InitDayPattern ==
  \E counts \in [0..6 -> 0..MaxDayCount] :
    HelperCalled([dayOfWeekCounts |-> counts, pattern |-> <<>>])

DayPatternCall ==
  /\ pc = "call"
  /\ hc' = [hc EXCEPT !.pattern = getDayUsagePattern(hc.dayOfWeekCounts)]
  /\ pc' = "returned"
  /\ UNCHANGED <<csvRows, minConsecUnsuccessful, minRunSpanDays, error, validRows,
                 idx, numberData, decayCurve, globalHourlyStats, accountStats,
                 messageStats, callerStats, dailyStats, numberSummaryArray,
                 health, consecRuns, result, fileRows, filePos, cur, other,
                 jobs, cancelResponse>>

SpecDayPattern == InitDayPattern /\ [][DayPatternCall]_vars

\* direct calls of calculateListGrade with the percentages (count / u) * 100
\* of a list of u = MaxGradeNumbers numbers, or of an empty list (0 / 0)
GradeInputs ==
  [healthyPct : {Frac(n, MaxGradeNumbers) : n \in 0..MaxGradeNumbers},
   degradingPct : {Frac(n, MaxGradeNumbers) : n \in {0, MaxGradeNumbers \div 2, MaxGradeNumbers}},
   toxicPct : {Frac(n, MaxGradeNumbers) : n \in 0..MaxGradeNumbers},
   neverDeliveredPct : {Frac(n, MaxGradeNumbers) : n \in 0..MaxGradeNumbers},
   grade : {""}]
  \cup {[healthyPct |-> Frac(0, 0), degradingPct |-> Frac(0, 0), toxicPct |-> Frac(0, 0),
          neverDeliveredPct |-> Frac(0, 0), grade |-> ""]}

InitGrade == \E args \in GradeInputs : HelperCalled(args)

GradeCall ==
  /\ pc = "call"
  /\ hc' = [hc EXCEPT !.grade = calculateListGrade(hc.healthyPct, hc.degradingPct,
                                                   hc.toxicPct, hc.neverDeliveredPct)]
  /\ pc' = "returned"
  /\ UNCHANGED <<csvRows, minConsecUnsuccessful, minRunSpanDays, error, validRows,
                 idx, numberData, decayCurve, globalHourlyStats, accountStats,
                 messageStats, callerStats, dailyStats, numberSummaryArray,
                 health, consecRuns, result, fileRows, filePos, cur, other,
                 jobs, cancelResponse>>

SpecGrade == InitGrade /\ [][GradeCall]_vars

---------------------------------------------------------------------------
(* retryableApiCall (server.js) *)

\* const delays = [3000, 10000, 60000], in milliseconds
delays == <<3000, 10000, 60000>>

ApiEndpoints == {"/accounts", "/accounts/1/campaigns?page=1"}
ApiErrors == {"HTTP 500: Internal Server Error", "HTTP 429: Too Many Requests",
              "fetch failed"}
ApiData == {"[]", "[campaign]"}

\* retryableApiCall(endpoint, apiKey, logger) is entered: attempt is the loop
\* variable, calls counts the calls of callVoAppsApi, waited lists the
\* timeouts that have elapsed, logged the error messages handed to the logger
InitRetry ==
  \E endpoint \in ApiEndpoints :
    HelperCalled([endpoint |-> endpoint, attempt |-> 0, calls |-> 0,
                  waited |-> <<>>, logged |-> <<>>, value |-> "", thrown |-> ""])

\* callVoAppsApi resolves: its value is returned
ApiCallSucceeds ==
  /\ pc = "call"
  /\ \E data \in ApiData :
       hc' = [hc EXCEPT !.calls = @ + 1, !.value = data]
  /\ pc' = "returned"
  /\ UNCHANGED <<csvRows, minConsecUnsuccessful, minRunSpanDays, error, validRows,
                 idx, numberData, decayCurve, globalHourlyStats, accountStats,
                 messageStats, callerStats, dailyStats, numberSummaryArray,
                 health, consecRuns, result, fileRows, filePos, cur, other,
                 jobs, cancelResponse>>

\* callVoAppsApi rejects: the catch block logs, then starts the timeout of
\* this attempt or, at the last index of delays, throws the error again
ApiCallFails ==
  /\ pc = "call"
  /\ \E err \in ApiErrors :
       IF hc.attempt < Len(delays) - 1
       THEN /\ hc' = [hc EXCEPT !.calls = @ + 1, !.logged = Append(@, err)]
            /\ pc' = "sleep"
       ELSE /\ hc' = [hc EXCEPT !.calls = @ + 1, !.logged = Append(@, err),
                                !.thrown = err]
            /\ pc' = "thrown"
  /\ UNCHANGED <<csvRows, minConsecUnsuccessful, minRunSpanDays, error, validRows,
                 idx, numberData, decayCurve, globalHourlyStats, accountStats,
                 messageStats, callerStats, dailyStats, numberSummaryArray,
                 health, consecRuns, result, fileRows, filePos, cur, other,
                 jobs, cancelResponse>>

\* the timeout delays[attempt] elapses, the loop goes to the next attempt
\* (the array is 0-based in the code, 1-based here)
RetryTimerFires ==
  /\ pc = "sleep"
  /\ hc' = [hc EXCEPT !.waited = Append(@, delays[hc.attempt + 1]),
                      !.attempt = @ + 1]
  /\ pc' = "call"
  /\ UNCHANGED <<csvRows, minConsecUnsuccessful, minRunSpanDays, error, validRows,
                 idx, numberData, decayCurve, globalHourlyStats, accountStats,
                 messageStats, callerStats, dailyStats, numberSummaryArray,
                 health, consecRuns, result, fileRows, filePos, cur, other,
                 jobs, cancelResponse>>

NextRetry ==
  \/ ApiCallSucceeds
  \/ ApiCallFails
  \/ RetryTimerFires

SpecRetry == InitRetry /\ [][NextRetry]_vars

---------------------------------------------------------------------------
(* runCombineCampaigns and POST /api/cancel (server.js) *)

\* The handlers run on one event loop: a state of the job is an await at
\* which it is suspended, an action is the code run when the awaited promise
\* settles, up to the next await.

\* accounts of a combine request, pages of a campaign list
MaxAccounts == 2
MaxPages == 2

TheJob == "job-1"
\* job_id of a cancel request: the job, an id that was never registered, none
CancelIds == {"job-1", "job-9", ""}

\* jobs.get(jobId)?.cancelled
IsCancelled(j) == j \in DOMAIN jobs /\ jobs[j].cancelled

\* sendProgress(jobId, update) with update = {status: st, ...}
SendStatus(j, st) ==
  IF j \in DOMAIN jobs THEN [jobs EXCEPT ![j].status = st] ELSE jobs

\* throw new Error(msg), through the catch block of runCombineCampaigns
Thrown(h, msg) == [h EXCEPT !.thrown = msg]

\* the request handler has parsed the body: account_ids has nAccounts entries
InitCombine ==
  \E nAccounts \in 1..MaxAccounts :
    /\ HelperCalled([job_id |-> TheJob, account_ids |-> nAccounts, acct |-> 0,
                     page |-> 0, campaigns |-> 0, i |-> 0, fetches |-> 0,
                     downloads |-> 0, thrown |-> ""])

\* runCombineCampaigns up to its first await: the job is registered,
\* fetchAllCampaigns passes its two checks and requests page 1 of account 1
StartCombine ==
  /\ pc = "call"
  /\ jobs' = [j \in DOMAIN jobs \cup {hc.job_id} |->
                IF j = hc.job_id THEN [cancelled |-> FALSE, status |-> "starting"]
                ELSE jobs[j]]
  /\ hc' = [hc EXCEPT !.acct = 1, !.page = 1, !.fetches = @ + 1]
  /\ pc' = "page"
  /\ UNCHANGED <<csvRows, minConsecUnsuccessful, minRunSpanDays, error, validRows,
                 idx, numberData, decayCurve, globalHourlyStats, accountStats,
                 messageStats, callerStats, dailyStats, numberSummaryArray,
                 health, consecRuns, result, fileRows, filePos, cur, other,
                 cancelResponse>>

\* a page of the campaign list arrives with found campaigns in the date range;
\* more: the page was full (25 campaigns), the while loop goes on
PageFetched ==
  /\ pc = "page"
  /\ \E found \in 0..1 : \E more \in BOOLEAN :
       LET h == [hc EXCEPT !.campaigns = @ + found] IN
       /\ more => hc.page < MaxPages
       /\ IF more
          THEN IF IsCancelled(hc.job_id)
               THEN hc' = Thrown(h, "Cancelled") /\ pc' = "thrown"
               ELSE hc' = [h EXCEPT !.page = @ + 1, !.fetches = @ + 1] /\ pc' = "page"
          ELSE IF hc.acct < hc.account_ids
          THEN IF IsCancelled(hc.job_id)
               THEN hc' = Thrown(h, "Cancelled") /\ pc' = "thrown"
               ELSE /\ hc' = [h EXCEPT !.acct = @ + 1, !.page = 1, !.fetches = @ + 1]
                    /\ pc' = "page"
          ELSE IF h.campaigns = 0
          THEN /\ hc' = Thrown(h, "No campaigns found in specified date range")
               /\ pc' = "thrown"
          ELSE hc' = h /\ pc' = "meta"
  /\ UNCHANGED <<csvRows, minConsecUnsuccessful, minRunSpanDays, error, validRows,
                 idx, numberData, decayCurve, globalHourlyStats, accountStats,
                 messageStats, callerStats, dailyStats, numberSummaryArray,
                 health, consecRuns, result, fileRows, filePos, cur, other, jobs,
                 cancelResponse>>

\* retryableApiCall rejects for a page: fetchAllCampaigns throws the error on
PageFetchFails ==
  /\ pc = "page"
  /\ hc' = Thrown(hc, "HTTP 500: Internal Server Error")
  /\ pc' = "thrown"
  /\ UNCHANGED <<csvRows, minConsecUnsuccessful, minRunSpanDays, error, validRows,
                 idx, numberData, decayCurve, globalHourlyStats, accountStats,
                 messageStats, callerStats, dailyStats, numberSummaryArray,
                 health, consecRuns, result, fileRows, filePos, cur, other, jobs,
                 cancelResponse>>

\* the top of the download loop for index i (0-based): the loop ends, the
\* job is found cancelled, or the detail of campaign i is requested
LoopTop(h) ==
  IF h.i >= h.campaigns THEN [hc |-> h, pc |-> "output"]
  ELSE IF IsCancelled(h.job_id) THEN [hc |-> Thrown(h, "Cancelled"), pc |-> "thrown"]
  ELSE [hc |-> [h EXCEPT !.downloads = @ + 1], pc |-> "detail"]

\* caller numbers, time zones, account names and messages have been fetched
\* (their errors are caught); the job is set running and the loop entered
MetaFetched ==
  /\ pc = "meta"
  /\ jobs' = SendStatus(hc.job_id, "running")
  /\ hc' = LoopTop(hc).hc
  /\ pc' = LoopTop(hc).pc
  /\ UNCHANGED <<csvRows, minConsecUnsuccessful, minRunSpanDays, error, validRows,
                 idx, numberData, decayCurve, globalHourlyStats, accountStats,
                 messageStats, callerStats, dailyStats, numberSummaryArray,
                 health, consecRuns, result, fileRows, filePos, cur, other,
                 cancelResponse>>

\* fetchCampaignDetail settles: with an export URL the report is requested;
\* without one (continue) or on an error (caught) the loop goes on
DetailFetched ==
  /\ pc = "detail"
  /\ \E hasExport \in BOOLEAN :
       IF hasExport THEN hc' = hc /\ pc' = "export"
       ELSE LET nxt == LoopTop([hc EXCEPT !.i = @ + 1]) IN
            hc' = nxt.hc /\ pc' = nxt.pc
  /\ UNCHANGED <<csvRows, minConsecUnsuccessful, minRunSpanDays, error, validRows,
                 idx, numberData, decayCurve, globalHourlyStats, accountStats,
                 messageStats, callerStats, dailyStats, numberSummaryArray,
                 health, consecRuns, result, fileRows, filePos, cur, other, jobs,
                 cancelResponse>>

\* the report of campaign i is downloaded and its rows added (an error is
\* caught and logged), the loop goes on
ExportFetched ==
  /\ pc = "export"
  /\ LET nxt == LoopTop([hc EXCEPT !.i = @ + 1]) IN
       hc' = nxt.hc /\ pc' = nxt.pc
  /\ UNCHANGED <<csvRows, minConsecUnsuccessful, minRunSpanDays, error, validRows,
                 idx, numberData, decayCurve, globalHourlyStats, accountStats,
                 messageStats, callerStats, dailyStats, numberSummaryArray,
                 health, consecRuns, result, fileRows, filePos, cur, other, jobs,
                 cancelResponse>>

\* insertRows / writeCsv / generateTrendAnalysis settle: the job is set
\* complete and the artifacts returned, or the error is thrown on
OutputWritten ==
  /\ pc = "output"
  /\ \E ok \in BOOLEAN :
       IF ok THEN /\ jobs' = SendStatus(hc.job_id, "complete")
                  /\ pc' = "returned"
                  /\ UNCHANGED hc
       ELSE /\ hc' = Thrown(hc, "ENOSPC: no space left on device")
            /\ pc' = "thrown"
            /\ UNCHANGED jobs
  /\ UNCHANGED <<csvRows, minConsecUnsuccessful, minRunSpanDays, error, validRows,
                 idx, numberData, decayCurve, globalHourlyStats, accountStats,
                 messageStats, callerStats, dailyStats, numberSummaryArray,
                 health, consecRuns, result, fileRows, filePos, cur, other,
                 cancelResponse>>

\* POST /api/cancel with {job_id: id}, handled while the job is suspended
CancelRequest ==
  /\ \E id \in CancelIds :
       IF Truthy(id) /\ id \in DOMAIN jobs
       THEN /\ jobs' = [jobs EXCEPT ![id].cancelled = TRUE]
            /\ cancelResponse' = [job_id |-> id, status |-> 200]
       ELSE /\ cancelResponse' = [job_id |-> id, status |-> 404]
            /\ UNCHANGED jobs
  /\ UNCHANGED <<csvRows, minConsecUnsuccessful, minRunSpanDays, pc, error,
                 validRows, idx, numberData, decayCurve, globalHourlyStats, accountStats,
                 messageStats, callerStats, dailyStats,
                 numberSummaryArray, health, consecRuns, result, hc, fileRows,
                 filePos, cur, other>>

NextCombine ==
  \/ StartCombine
  \/ PageFetched
  \/ PageFetchFails
  \/ MetaFetched
  \/ DetailFetched
  \/ ExportFetched
  \/ OutputWritten
  \/ CancelRequest

SpecCombine == InitCombine /\ [][NextCombine]_vars

---------------------------------------------------------------------------
(* A second invocation on the same row objects *)

\* the row objects of the caller's array after an invocation: the rows that
\* passed the filter carry the fields the enrichment loop wrote
RowsAfterRun(rows) ==
  [k \in 1..Len(rows) |-> IF IsValidRow(rows[k]) THEN EnrichRow(rows[k]) ELSE rows[k]]

\* the caller invokes the analysis again, with the same array and thresholds
CallAgain ==
  /\ cur = 1
  /\ other = NoFrame
  /\ pc \in {"done", "failed"}
  /\ other' = Frame
  /\ cur' = 2
  /\ csvRows' = IF Len(csvRows) = 0 THEN csvRows ELSE RowsAfterRun(csvRows)
  /\ pc' = "load"
  /\ error' = ""
  /\ validRows' = <<>>
  /\ idx' = 0
  /\ numberData' = <<>>
  /\ decayCurve' = <<>>
  /\ globalHourlyStats' = <<>>
  /\ accountStats' = <<>>
  /\ messageStats' = <<>>
  /\ callerStats' = <<>>
  /\ dailyStats' = <<>>
  /\ numberSummaryArray' = <<>>
  /\ health' = NoHealth
  /\ consecRuns' = <<>>
  /\ result' = <<>>
  /\ UNCHANGED <<minConsecUnsuccessful, minRunSpanDays, hc, fileRows, filePos,
                 jobs, cancelResponse>>

NextTwice ==
  \/ LoadRows
  \/ EnrichAndSort
  \/ FoldRow
  \/ BuildDecayCurve
  \/ BuildRollups
  \/ ClassifyNumbers
  \/ BuildConsecRuns
  \/ WriteWorkbook
  \/ CallAgain

InitTwice == \E rows \in SeqsUpTo(GeneralRows, MaxTwiceRows) : Started(rows, 2, 1)

SpecTwice == InitTwice /\ [][NextTwice]_vars

---------------------------------------------------------------------------
(* Thresholds below 1 *)

\* parseInt(val) || 4 of /api/analyze-csv, for a field that holds an integer
ParseIntOr4(val) == IF val = 0 THEN 4 ELSE val

\* well-formed rows: two numbers, the two delivery results, two dates
ThresholdRows ==
  {Row(n, r, t) : n \in Numbers, r \in {SuccessText, FailureText},
                  t \in {TsIso(0, 9), TsIso(1, 14)}}

\* the analysis is requested with a threshold of 0 or -1, through
\* /api/analyze-csv (parsed form field) or /api/analyze-database (the JSON
\* value as it is)
InitThreshold ==
  \E rows \in SeqsUpTo(ThresholdRows, MaxThresholdRows) :
    \E requested \in {-1, 0} : \E parsed \in BOOLEAN :
      Started(rows, IF parsed THEN ParseIntOr4(requested) ELSE requested, 1)

SpecThreshold == InitThreshold /\ [][Next]_vars


\* rows of one number, all unsuccessful: delivery attempts (day 0 at 9h) and
\* rows with a whitespace-only timestamp, of two messages and two callers,
\* and a delivery attempt on another day and hour
ScoreRows ==
  {RowWith("5551234567", FailureText, t, mc[1], mc[2]) :
     t \in {TsBlank, TsIso(0, 9)},
     mc \in {<<"m1", "c1">>, <<"m2", "c1">>, <<"m2", "c2">>}}
  \cup {RowWith("5551234567", FailureText, TsIso(1, 14), "m1", "c1")}

InitScore == \E rows \in SeqsUpTo(ScoreRows, MaxScoreRows) : Started(rows, 2, 1)

SpecScore == InitScore /\ [][Next]_vars


\* the locals of invocation id when it is called with rows: the path of a CSV
\* file that holds them (fromFile), or an array of row objects
StartFrame(id, rows, fromFile, minConsec, minSpanDays) ==
  [id |-> id,
   csvRows |-> IF fromFile THEN <<>> ELSE rows,
   fileRows |-> IF fromFile THEN rows ELSE <<>>,
   filePos |-> 0,
   minConsecUnsuccessful |-> minConsec, minRunSpanDays |-> minSpanDays,
   pc |-> IF fromFile THEN "read" ELSE "load",
   error |-> "", validRows |-> <<>>, idx |-> 0, numberData |-> <<>>,
   decayCurve |-> <<>>, globalHourlyStats |-> <<>>,
   accountStats |-> <<>>, messageStats |-> <<>>, callerStats |-> <<>>,
   dailyStats |-> <<>>, numberSummaryArray |-> <<>>,
   health |-> NoHealth, consecRuns |-> <<>>, result |-> <<>>]

\* the variables hold the locals f
Running(f) ==
  /\ cur = f.id
  /\ csvRows = f.csvRows
  /\ fileRows = f.fileRows
  /\ filePos = f.filePos
  /\ minConsecUnsuccessful = f.minConsecUnsuccessful
  /\ minRunSpanDays = f.minRunSpanDays
  /\ pc = f.pc
  /\ error = f.error
  /\ validRows = f.validRows
  /\ idx = f.idx
  /\ numberData = f.numberData
  /\ decayCurve = f.decayCurve
  /\ globalHourlyStats = f.globalHourlyStats
  /\ accountStats = f.accountStats
  /\ messageStats = f.messageStats
  /\ callerStats = f.callerStats
  /\ dailyStats = f.dailyStats
  /\ numberSummaryArray = f.numberSummaryArray
  /\ health = f.health
  /\ consecRuns = f.consecRuns
  /\ result = f.result

\* the streaming parser delivers the next row of the file (the chunk
\* callback keeps the rows that have a number), or completes
ReadChunk ==
  /\ pc = "read"
  /\ IF filePos < Len(fileRows)
     THEN /\ csvRows' = IF Truthy(fileRows[filePos + 1].number)
                        THEN Append(csvRows, fileRows[filePos + 1])
                        ELSE csvRows
          /\ filePos' = filePos + 1
          /\ UNCHANGED pc
     ELSE /\ pc' = "load"
          /\ UNCHANGED <<csvRows, filePos>>
  /\ UNCHANGED <<fileRows, minConsecUnsuccessful, minRunSpanDays, error, validRows,
                 idx, numberData, decayCurve, globalHourlyStats, accountStats,
                 messageStats, callerStats, dailyStats, numberSummaryArray,
                 health, consecRuns, result, hc, cur, other,
                 jobs, cancelResponse>>

\* an invocation is suspended at an await (the parser's promise, writeFile)
\* or over; code runs to its next await without interruption
AtAwait(p) == p \in {"read", "write", "done", "failed"}

\* mutant: numberData is one object of the module, not a local
Yield_SharedNumberData ==
  /\ AtAwait(pc)
  /\ other.id # 0
  /\ other.pc \notin {"done", "failed"}
  /\ other' = Frame
  /\ cur' = other.id
  /\ csvRows' = other.csvRows
  /\ fileRows' = other.fileRows
  /\ filePos' = other.filePos
  /\ minConsecUnsuccessful' = other.minConsecUnsuccessful
  /\ minRunSpanDays' = other.minRunSpanDays
  /\ pc' = other.pc
  /\ error' = other.error
  /\ validRows' = other.validRows
  /\ idx' = other.idx
  /\ decayCurve' = other.decayCurve
  /\ globalHourlyStats' = other.globalHourlyStats
  /\ accountStats' = other.accountStats
  /\ messageStats' = other.messageStats
  /\ callerStats' = other.callerStats
  /\ dailyStats' = other.dailyStats
  /\ numberSummaryArray' = other.numberSummaryArray
  /\ health' = other.health
  /\ consecRuns' = other.consecRuns
  /\ result' = other.result
  /\ UNCHANGED <<numberData, hc, jobs, cancelResponse>>

\* the event loop runs the other invocation: the locals of the running one
\* are set aside, those of the other one come back as they were left
Yield ==
  /\ AtAwait(pc)
  /\ other.id # 0
  /\ other.pc \notin {"done", "failed"}
  /\ other' = Frame
  /\ cur' = other.id
  /\ csvRows' = other.csvRows
  /\ fileRows' = other.fileRows
  /\ filePos' = other.filePos
  /\ minConsecUnsuccessful' = other.minConsecUnsuccessful
  /\ minRunSpanDays' = other.minRunSpanDays
  /\ pc' = other.pc
  /\ error' = other.error
  /\ validRows' = other.validRows
  /\ idx' = other.idx
  /\ numberData' = other.numberData
  /\ decayCurve' = other.decayCurve
  /\ globalHourlyStats' = other.globalHourlyStats
  /\ accountStats' = other.accountStats
  /\ messageStats' = other.messageStats
  /\ callerStats' = other.callerStats
  /\ dailyStats' = other.dailyStats
  /\ numberSummaryArray' = other.numberSummaryArray
  /\ health' = other.health
  /\ consecRuns' = other.consecRuns
  /\ result' = other.result
  /\ UNCHANGED <<hc, jobs, cancelResponse>>

NextConcurrent ==
  \/ ReadChunk
  \/ LoadRows
  \/ EnrichAndSort
  \/ FoldRow
  \/ BuildDecayCurve
  \/ BuildRollups
  \/ ClassifyNumbers
  \/ BuildConsecRuns
  \/ WriteWorkbook
  \/ Yield

\* the rows of the two inputs: two numbers, the two delivery results, one
\* timestamp, and a row without a number
ConcurrentRows ==
  {Row(n, r, TsIso(0, 9)) : n \in Numbers, r \in {SuccessText, FailureText}}
  \cup {Row("", FailureText, TsIso(0, 9))}

\* invocation 1 is called with a CSV file, invocation 2 with row objects,
\* on different inputs
InitConcurrent ==
  \E a, b \in SeqsUpTo(ConcurrentRows, MaxConcurrentRows) :
    /\ a # b
    /\ Running(StartFrame(1, a, TRUE, 2, 1))
    /\ other = StartFrame(2, b, FALSE, 2, 1)
    /\ hc = NoCall
    /\ jobs = NoJobs
    /\ cancelResponse = NoResponse

SpecConcurrent == InitConcurrent /\ [][NextConcurrent]_vars

---------------------------------------------------------------------------
(* Properties of the fold *)

\* the rows of number n among the first upto rows of validRows
RowsOf(n, upto) == {k \in 1..upto : validRows[k].number = n}

\* the last Success row of n among the first upto rows, 0 if none
LastSuccessRow(n, upto) ==
  LET succ == {k \in RowsOf(n, upto) : validRows[k].isSuccess} IN
  IF succ = {} THEN 0 ELSE CHOOSE k \in succ : \A j \in succ : j <= k

\* delivery-attempt rows of n among the first upto rows and after row `after`
AttemptRowsAfter(n, after, upto) ==
  Cardinality({k \in RowsOf(n, upto) : k > after /\ validRows[k].isDeliveryAttempt})

IsUnsuccessfulAttempt(row) == ~row.isSuccess /\ row.isDeliveryAttempt

\* C1: after every processed row, the attemptIndex of every profile is the
\* number of delivery-attempt rows of that number seen since its most recent
\* Success row (since its first row if it has none).
C1_AttemptIndexCountsSinceSuccess ==
  \A n \in DOMAIN numberData :
     numberData[n].attemptIndex = AttemptRowsAfter(n, LastSuccessRow(n, idx), idx)

\* a number with a Success followed by two delivery attempts
C1_Witness ==
  \E n \in DOMAIN numberData :
     /\ numberData[n].successCount = 1
     /\ numberData[n].attemptIndex = 2

\* C2: after every step of the fold, successCount + unsuccessfulCount equals
\* totalAttempts for every profile.
C2_CountInvariant ==
  \A n \in DOMAIN numberData :
     numberData[n].successCount + numberData[n].unsuccessfulCount
       = numberData[n].totalAttempts

\* C3: a fold step adds exactly 1 to consecutiveFailures of the row's number on
\* an UnsuccessfulAttempt row, sets it to 0 on a Success row, leaves it alone on
\* any other row, and never touches the counter of another number.
C3_ConsecutiveFailuresStep ==
  [][(pc = "fold" /\ idx' = idx + 1) =>
       LET row == validRows[idx + 1]
           old == ProfileOf(numberData, row.number).consecutiveFailures
           new == numberData'[row.number].consecutiveFailures
       IN /\ row.isSuccess => new = 0
          /\ IsUnsuccessfulAttempt(row) => new = old + 1
          /\ (~row.isSuccess /\ ~row.isDeliveryAttempt) => new = old
          /\ \A m \in DOMAIN numberData \ {row.number} :
                numberData'[m].consecutiveFailures = numberData[m].consecutiveFailures
    ]_vars

\* two unsuccessful attempts, then a Success that resets the counter
C3_Witness ==
  \E n \in DOMAIN numberData :
     /\ numberData[n].unsuccessfulCount = 2
     /\ Len(numberData[n].attempts) = 3
     /\ numberData[n].attempts[2].isDeliveryAttempt
     /\ numberData[n].attempts[3].isSuccess
     /\ numberData[n].consecutiveFailures = 0

\* C4: in the attempts of a number, the first delivery attempt after a Success
\* carries attemptIndex 1.
C4_IndexOneAfterSuccess ==
  \A n \in DOMAIN numberData :
     LET att == numberData[n].attempts IN
     \A i \in 1..Len(att) : \A j \in 1..Len(att) :
        ( /\ i < j
          /\ att[i].isSuccess
          /\ att[j].isDeliveryAttempt
          /\ \A k \in (i + 1)..(j - 1) : ~att[k].isDeliveryAttempt )
        => att[j].attemptIndex = 1

\* a Success that was itself the second attempt, followed by a delivery attempt
C4_Witness ==
  \E n \in DOMAIN numberData :
     LET att == numberData[n].attempts IN
     /\ Len(att) = 3
     /\ att[2].isSuccess /\ att[2].attemptIndex = 2
     /\ att[3].isDeliveryAttempt /\ att[3].attemptIndex = 1

---------------------------------------------------------------------------
(* Properties of classifyTNHealth *)

\* the rules of the classifier that match the inputs of the call, by number
MatchingRules(in) ==
  LET r == in.successRate
      cf == in.consecutiveFailures
  IN {k \in 1..7 :
        \/ k = 1 /\ 10 * r.num < r.den /\ cf >= 4
        \/ k = 2 /\ cf >= 6
        \/ k = 3 /\ in.totalAttempts >= 5 /\ r.num = 0
        \/ k = 4 /\ 4 * r.num < r.den /\ cf >= 2
        \/ k = 5 /\ 5 * r.num < r.den /\ ~in.recentSuccess14Days
        \/ k = 6 /\ cf >= 3
        \/ k = 7}

FirstRule(in) == CHOOSE k \in MatchingRules(in) : \A j \in MatchingRules(in) : k <= j

RuleLabel(k) ==
  IF k \in {1, 2, 3} THEN "Toxic" ELSE IF k \in {4, 5, 6} THEN "Degrading" ELSE "Healthy"

\* the call classify(0.05, 5, 10, false)
IsExampleCall(in) ==
  /\ in.successRate = Frac(1, 20)
  /\ in.consecutiveFailures = 5
  /\ in.totalAttempts = 10
  /\ ~in.recentSuccess14Days

\* C5: classifyTNHealth returns the label of the first rule, in the order
\* 1..7, that matches its four inputs; (0.05, 5, 10, false) gives Toxic.
C5_FirstMatchingRule ==
  pc = "returned" =>
    /\ hc.label = RuleLabel(FirstRule(hc))
    /\ IsExampleCall(hc) => hc.label = "Toxic"

\* the example call has returned: rules 1, 4, 5 and 6 all match it
C5_Witness ==
  /\ pc = "returned"
  /\ IsExampleCall(hc)
  /\ MatchingRules(hc) = {1, 4, 5, 6, 7}
  /\ hc.label = "Toxic"

---------------------------------------------------------------------------
(* Properties of the decay curve *)

DecayCurveBuilt == pc \in {"rollups", "classify", "runs", "write", "done"}

DeliveryAttemptRows == {k \in 1..Len(validRows) : validRows[k].isDeliveryAttempt}

\* C6: the totals of the 10 emitted buckets add up to the number of
\* delivery-attempt rows of the dataset.
C6_DecayTotalConservation ==
  DecayCurveBuilt =>
    SumSeq([i \in 1..Len(decayCurve) |-> decayCurve[i].total])
      = Cardinality(DeliveryAttemptRows)

\* eleven failures in a row: the tenth and the eleventh attempt share the
\* last bucket
C6_Witness ==
  /\ DecayCurveBuilt
  /\ Cardinality(DeliveryAttemptRows) = MaxDecayRows
  /\ decayCurve[10].total = MaxDecayRows - 9
  /\ \A i \in 1..9 : decayCurve[i].total = 1

\* the attemptIndex of delivery-attempt row k at the moment it occurred: the
\* delivery attempts of its number after the last Success before k, k included
IndexWhenOccurred(k) ==
  LET n == validRows[k].number IN AttemptRowsAfter(n, LastSuccessRow(n, k - 1), k)

\* C7: the curve has the 10 buckets 1,...,9,'10+' in order; bucket i counts the
\* delivery attempts whose attemptIndex when they occurred, capped at 10, is
\* i; its probability is successful/total, and 0 with total 0 when it is empty.
C7_DecayCurveShape ==
  DecayCurveBuilt =>
    LET bucket == [k \in DeliveryAttemptRows |-> Min(IndexWhenOccurred(k), 10)] IN
    /\ Len(decayCurve) = 10
    /\ [i \in 1..10 |-> decayCurve[i].attemptIndex]
         = <<"1", "2", "3", "4", "5", "6", "7", "8", "9", "10+">>
    /\ \A i \in 1..10 :
         LET rows == {k \in DeliveryAttemptRows : bucket[k] = i}
             succ == Cardinality({k \in rows : validRows[k].isSuccess})
         IN /\ decayCurve[i].total = Cardinality(rows)
            /\ decayCurve[i].successful = succ
            /\ decayCurve[i].probability =
                 IF rows = {} THEN Frac(0, 1) ELSE Frac(succ, Cardinality(rows))

\* ten failures and then a Success as 11th attempt: both the 10th and the
\* 11th attempt are in bucket '10+', the Success in bucket 11 -> '10+', not 0
C7_Witness ==
  /\ DecayCurveBuilt
  /\ Len(validRows) = 11
  /\ decayCurve[10].total = 2
  /\ decayCurve[10].successful = 1
  /\ decayCurve[1].total = 1
  /\ decayCurve[1].probability = Frac(0, 1)

---------------------------------------------------------------------------
(* Properties of the run detector *)

RunsBuilt == pc \in {"write", "done"}

\* the maximal runs <<a, b>> of non-success attempts that a Success ends
InteriorRuns(att) ==
  {ab \in (1..Len(att)) \X (1..Len(att)) :
     /\ ab[1] <= ab[2]
     /\ ab[2] < Len(att)
     /\ \A k \in ab[1]..ab[2] : ~att[k].isSuccess
     /\ att[ab[2] + 1].isSuccess
     /\ (ab[1] = 1 \/ att[ab[1] - 1].isSuccess)}

\* the first attempt after the last Success (Len(att) + 1 if the last attempt
\* is a Success): the trailing run is att[TrailingStart(att)..Len(att)]
TrailingStart(att) ==
  LET succ == {k \in 1..Len(att) : att[k].isSuccess} IN
  IF succ = {} THEN 1 ELSE 1 + CHOOSE k \in succ : \A j \in succ : j <= k

\* the retention rule of the specification for the run att[a..b]
Qualifies(att, a, b) ==
  /\ b - a + 1 >= minConsecUnsuccessful
  /\ \/ /\ att[a].timestamp # NaN
        /\ att[b].timestamp # NaN
        /\ att[b].timestamp - att[a].timestamp >= minRunSpanDays * HoursPerDay
     \/ b - a + 1 >= 6

\* what a row of the runs list says of the run att[a..b]
RunTriple(att, a, b) == <<b - a + 1, att[a].timestamp, att[b].timestamp>>
RowTriple(r) == <<r.count, r.runStart, r.runEnd>>

\* rows of the runs list for number n that describe triple t
RowsFor(n, t) ==
  Cardinality({j \in 1..Len(consecRuns) :
                 consecRuns[j].number = n /\ RowTriple(consecRuns[j]) = t})

\* interior runs of att that qualify and have triple t
KeptFor(att, t) ==
  Cardinality({ab \in InteriorRuns(att) :
                 Qualifies(att, ab[1], ab[2]) /\ RunTriple(att, ab[1], ab[2]) = t})

HasTrailing(att) == TrailingStart(att) <= Len(att)
TrailingTriple(att) == RunTriple(att, TrailingStart(att), Len(att))

\* every triple a row or a run of number n can have
TriplesOf(n, att) ==
  {RowTriple(consecRuns[j]) : j \in {i \in 1..Len(consecRuns) : consecRuns[i].number = n}}
  \cup {RunTriple(att, ab[1], ab[2]) : ab \in InteriorRuns(att)}

\* the input is [Fail, Fail, Fail, Fail, Success, Fail, Fail], thresholds 4 and 0
IsRunExample ==
  /\ Len(validRows) = 7
  /\ [k \in 1..7 |-> validRows[k].isSuccess]
       = <<FALSE, FALSE, FALSE, FALSE, TRUE, FALSE, FALSE>>
  /\ minConsecUnsuccessful = 4
  /\ minRunSpanDays = 0

\* C8: a maximal run of non-success attempts ended by a Success has a row in
\* the runs list if and only if its length is >= minConsecUnsuccessful and
\* (its span is >= minRunSpanDays or its length is >= 6): apart from at most
\* one row for the trailing run, the rows of a number are exactly its
\* qualifying interior runs.  The example yields one row, of length 4.
C8_InteriorRunsEmitted ==
  RunsBuilt =>
    /\ \A n \in DOMAIN numberData :
         LET att == numberData[n].attempts IN
         \A t \in TriplesOf(n, att) :
            \/ RowsFor(n, t) = KeptFor(att, t)
            \/ /\ HasTrailing(att)
               /\ t = TrailingTriple(att)
               /\ RowsFor(n, t) = KeptFor(att, t) + 1
    /\ IsRunExample => Len(consecRuns) = 1 /\ consecRuns[1].count = 4

\* six failures within half a day and then a Success, span threshold one day:
\* the run is emitted for its length alone
C8_Witness ==
  /\ RunsBuilt
  /\ minRunSpanDays = 1
  /\ Len(validRows) = 7
  /\ validRows[7].isSuccess
  /\ Len(consecRuns) = 1
  /\ consecRuns[1].count = 6
  /\ ~SpanAtLeast(consecRuns[1].spanDays, minRunSpanDays)

\* C9: the trailing run of a number has a row in the runs list only if its
\* length is >= minConsecUnsuccessful and (its span is >= minRunSpanDays or
\* its length is >= 6).
C9_TrailingRunSameRule ==
  RunsBuilt =>
    \A n \in DOMAIN numberData :
       LET att == numberData[n].attempts IN
       ( /\ HasTrailing(att)
         /\ RowsFor(n, TrailingTriple(att)) > KeptFor(att, TrailingTriple(att)) )
       => Qualifies(att, TrailingStart(att), Len(att))

---------------------------------------------------------------------------
(* Properties of the input validation *)

\* a row with a usable number and a parseable timestamp
IsUsableRow(row) == Truthy(row.number) /\ row.voapps_timestamp.kind = "iso"

\* C10: a non-empty input without any row that has both a usable number and a
\* parseable timestamp never gets a report: the invocation fails instead.
C10_NoAnalyzableDataFails ==
  ( /\ Len(csvRows) > 0
    /\ \A k \in 1..Len(csvRows) : ~IsUsableRow(csvRows[k]) )
  => pc # "done"

---------------------------------------------------------------------------
(* Empty input *)

\* C11: an invocation handed an empty row collection throws: it never gets
\* past input handling, writes no workbook and returns no result.
C11_EmptyInputFails ==
  Len(csvRows) = 0 =>
    /\ pc \in {"load", "failed"}
    /\ pc = "failed" => error # ""
    /\ result = <<>>
    /\ consecRuns = <<>> /\ decayCurve = <<>>

C11_Witness ==
  /\ Len(csvRows) = 0
  /\ pc = "failed"
  /\ error = "No data found in CSV input"
  /\ result = <<>>

---------------------------------------------------------------------------
(* Malformed rows *)

\* a row with a number, a result and a timestamp that parses
IsWellFormedRow(row) ==
  /\ Truthy(row.number)
  /\ Truthy(row.voapps_result)
  /\ row.voapps_timestamp.kind = "iso"

\* a row without a number, or with a non-empty timestamp that does not parse
IsMalformedRow(row) ==
  \/ ~Truthy(row.number)
  \/ row.voapps_timestamp.kind = "garbage"

\* the input is well-formed rows, at least one, plus malformed rows
WellFormedPlusMalformed ==
  /\ \E k \in 1..Len(csvRows) : IsWellFormedRow(csvRows[k])
  /\ \A k \in 1..Len(csvRows) :
        IsWellFormedRow(csvRows[k]) \/ IsMalformedRow(csvRows[k])

WellFormedRowsOf(n) ==
  {k \in 1..Len(csvRows) : IsWellFormedRow(csvRows[k]) /\ csvRows[k].number = n}

\* C12: malformed rows added to an input that has a well-formed row never abort
\* the invocation, and the report counts the well-formed rows only.
C12_MalformedRowNeverAborts ==
  WellFormedPlusMalformed =>
    /\ pc # "failed"
    /\ pc = "done" =>
          \A n \in DOMAIN numberData :
            numberData[n].totalAttempts = Cardinality(WellFormedRowsOf(n))

---------------------------------------------------------------------------
(* Idempotence *)

\* what an invocation hands back: the outcome, the value returned and the
\* data of the report
OutputsOf(f) ==
  [pc |-> f.pc, error |-> f.error, result |-> f.result,
   numberSummaryArray |-> f.numberSummaryArray, decayCurve |-> f.decayCurve,
   consecRuns |-> f.consecRuns, health |-> f.health]

SecondRunOver == cur = 2 /\ other.id = 1 /\ pc \in {"done", "failed"}

\* C13: the second of two invocations on the same row objects and thresholds
\* ends as the first did, with the same summaries, decay curve, run list,
\* counts, grade and returned value.
C13_SecondRunSameOutput ==
  SecondRunOver => OutputsOf(Frame) = OutputsOf(other)

\* a second run, over rows the first run enriched, that reports a run as the
\* first did
C13_Witness ==
  /\ SecondRunOver
  /\ pc = "done"
  /\ \E k \in 1..Len(csvRows) : "parsedDate" \in DOMAIN csvRows[k]
  /\ Len(consecRuns) > 0
  /\ result = other.result

---------------------------------------------------------------------------
(* Invocations do not interfere *)

RECURSIVE FoldAll(_)
\* the number-level fold over rows, from an empty numberData
FoldAll(rows) ==
  IF rows = <<>> THEN <<>>
  ELSE FoldInto(FoldAll(SubSeq(rows, 1, Len(rows) - 1)), rows[Len(rows)])

FailedOutputs(msg) ==
  [pc |-> "failed", error |-> msg, result |-> <<>>, numberSummaryArray |-> <<>>,
   decayCurve |-> <<>>, consecRuns |-> <<>>, health |-> NoHealth]

\* what the invocation called with the input of frame f hands back when no
\* other invocation runs (the inputs here have parseable dates only, so
\* that nothing throws after the input handling and the sort has one outcome)
AloneOutputs(f) ==
  LET loaded == IF f.fileRows # <<>>
                THEN SelectSeq(f.fileRows, LAMBDA r : Truthy(r.number))
                ELSE f.csvRows
      rows == StableSortByDate(EnrichAll(SelectSeq(loaded, IsValidRow)))
      nData == FoldAll(rows)
      keys == KeyOrder(rows)
      summaries == NumberSummaries(nData, keys, MaxDate(rows))
      h == HealthOf(summaries, Cardinality(DOMAIN nData))
      runs == ConsecRunsOf(nData, keys, summaries, f.minConsecUnsuccessful,
                           f.minRunSpanDays)
  IN IF loaded = <<>> THEN FailedOutputs("No data found in CSV input")
     ELSE [pc |-> "done", error |-> "",
           result |-> [totalRecords |-> Len(rows),
                       uniqueNumbers |-> Cardinality(DOMAIN nData),
                       listGrade |-> h.listGrade,
                       healthyCount |-> h.healthyCount,
                       degradingCount |-> h.degradingCount,
                       toxicCount |-> h.toxicCount,
                       neverDeliveredCount |-> h.neverDeliveredCount,
                       consecRunsCount |-> Len(runs)],
           numberSummaryArray |-> summaries,
           decayCurve |-> DecayCurveOf(nData, keys),
           consecRuns |-> runs,
           health |-> h]

IsOver(f) == f.id # 0 /\ f.pc \in {"done", "failed"}

\* C14: of two invocations on different inputs interleaved at their awaits,
\* each ends with the outcome, the returned value and the report data it
\* produces when it runs alone.
C14_InvocationsIndependent ==
  /\ IsOver(Frame) => OutputsOf(Frame) = AloneOutputs(Frame)
  /\ IsOver(other) => OutputsOf(other) = AloneOutputs(other)

\* invocation 1 was suspended while invocation 2 ran from its call to its
\* end, both report on a number they have in common, with different
\* profiles, and invocation 1 found a run
C14_Witness ==
  /\ cur = 1 /\ pc = "done"
  /\ other.id = 2 /\ other.pc = "done"
  /\ \E n \in DOMAIN numberData \cap DOMAIN other.numberData :
        numberData[n] # other.numberData[n]
  /\ Len(consecRuns) > 0
  /\ other.result.uniqueNumbers = 2

---------------------------------------------------------------------------
(* Variability score *)

NumbersClassified == pc \in {"runs", "write", "done"}

\* C15: the variability score of every number is an integer from 0 to 100.
C15_VariabilityScoreBounds ==
  NumbersClassified =>
    \A k \in 1..Len(numberSummaryArray) :
      numberSummaryArray[k].variabilityScore \in 0..100

\* a number with several delivery attempts whose top message was counted on
\* more rows than it has delivery attempts, and as many back-to-back repeats
\* as delivery attempts: the rounded sum is negative, the score 0
C15_Witness ==
  /\ NumbersClassified
  /\ \E n \in DOMAIN numberData :
       /\ numberData[n].totalAttempts > 1
       /\ Cardinality(DOMAIN numberData[n].messageIds) > 1
       /\ TopCount(numberData[n].messageIds) > numberData[n].totalAttempts
       /\ numberData[n].backToBackIdentical >= numberData[n].totalAttempts
       /\ \E k \in 1..Len(numberSummaryArray) :
            /\ numberSummaryArray[k].number = n
            /\ numberSummaryArray[k].variabilityScore = 0

---------------------------------------------------------------------------
(* Numbers without a delivery attempt *)

AttemptedSummaries ==
  {k \in 1..Len(numberSummaryArray) : numberSummaryArray[k].totalAttempts > 0}

\* C16: a number with totalAttempts = 0 has no health label and is counted
\* in none of healthyCount, degradingCount and toxicCount.
C16_ZeroAttemptNeverClassified ==
  NumbersClassified =>
    /\ \A k \in 1..Len(numberSummaryArray) :
         numberSummaryArray[k].totalAttempts = 0 =>
           numberSummaryArray[k].tnHealth \notin {"Healthy", "Degrading", "Toxic"}
    /\ health.healthyCount + health.degradingCount + health.toxicCount
         = Cardinality(AttemptedSummaries)

---------------------------------------------------------------------------
(* Properties of getDayUsagePattern *)

DayTotal == SumSeq([k \in 1..7 |-> hc.dayOfWeekCounts[k - 1]])

\* the days Monday..Saturday (1..6) with strictly more than 10% of the total
UsedWeekdays == {i \in 1..6 : 10 * hc.dayOfWeekCounts[i] > DayTotal}

---------------------------------------------------------------------------
(* Properties of calculateListGrade *)

\* the percentage p is at least x / below x (a percentage of an empty list is
\* neither)
AtLeastPct(p, x) == p.den > 0 /\ 100 * p.num >= x * p.den
BelowPct(p, x) == p.den > 0 /\ 100 * p.num < x * p.den

GradeA == AtLeastPct(hc.healthyPct, 80) /\ BelowPct(hc.toxicPct, 5)
          /\ BelowPct(hc.neverDeliveredPct, 10)
GradeB == AtLeastPct(hc.healthyPct, 60) /\ BelowPct(hc.toxicPct, 10)
          /\ BelowPct(hc.neverDeliveredPct, 20)
GradeC == AtLeastPct(hc.healthyPct, 40) /\ BelowPct(hc.toxicPct, 20)

---------------------------------------------------------------------------
(* Thresholds below 1 *)

\* C19: an analysis handed minConsecUnsuccessful < 1 and a non-empty input
\* works with a safe minimum: it does not fail and lists no run of length 0.
C19_LowThresholdClamped ==
  (minConsecUnsuccessful < 1 /\ Len(csvRows) > 0) =>
    /\ pc # "failed"
    /\ \A k \in 1..Len(consecRuns) : consecRuns[k].count >= 1

---------------------------------------------------------------------------
(* Number fields as they are written in a CSV *)

\* the number fields of the uploaded rows: plain 10 digits, the same number
\* with dashes, with the country code, with "+1" and punctuation, a second
\* number, and a 7-digit number; none is an array index of numberData
RawNumbers ==
  {"5551234567", "555-123-4567", "15551234567", "+1 (555) 123-4567",
   "5559876543", "555-1234"}

\* the characters of a number field
CharsOf(s) ==
  CASE s = "5551234567" -> <<"5", "5", "5", "1", "2", "3", "4", "5", "6", "7">>
    [] s = "555-123-4567" ->
         <<"5", "5", "5", "-", "1", "2", "3", "-", "4", "5", "6", "7">>
    [] s = "15551234567" ->
         <<"1", "5", "5", "5", "1", "2", "3", "4", "5", "6", "7">>
    [] s = "+1 (555) 123-4567" ->
         <<"+", "1", " ", "(", "5", "5", "5", ")", " ", "1", "2", "3", "-",
           "4", "5", "6", "7">>
    [] s = "5559876543" -> <<"5", "5", "5", "9", "8", "7", "6", "5", "4", "3">>
    [] s = "555-1234" -> <<"5", "5", "5", "-", "1", "2", "3", "4">>
    [] OTHER -> <<>>

IsDigit(c) == c \in {"0", "1", "2", "3", "4", "5", "6", "7", "8", "9"}

\* normalizePhone(raw) on the characters of raw: the digits, without the
\* leading "1" of 11 digits; <<>> (the empty string) unless 10 digits remain
normalizePhone(chars) ==
  LET digits == SelectSeq(chars, IsDigit)
      s == IF Len(digits) = 11 /\ digits[1] = "1" THEN Tail(digits) ELSE digits
  IN IF Len(s) = 10 THEN s ELSE <<>>

RawRows ==
  {Row(n, r, t) : n \in RawNumbers, r \in {SuccessText, FailureText},
                  t \in {TsIso(0, 9), TsIso(1, 14)}}

\* an uploaded CSV is analysed as parsed, with the default thresholds
InitRawNumbers == \E rows \in SeqsUpTo(RawRows, MaxRawRows) : Started(rows, 4, 1)

SpecRawNumbers == InitRawNumbers /\ [][Next]_vars

\* C20: in a finished analysis two rows whose number fields normalize to the
\* same 10 digits are in the same profile of numberData, and a row whose
\* number field does not normalize to 10 digits is in none.
\* (the profile of a row is numberData[row.number], the key the fold files it under)
C20_GroupedByNormalizedNumber ==
  pc = "done" =>
    \A a, b \in 1..Len(csvRows) :
      LET na == normalizePhone(CharsOf(csvRows[a].number))
          nb == normalizePhone(CharsOf(csvRows[b].number)) IN
      /\ (na = nb /\ na # <<>>) => csvRows[a].number = csvRows[b].number
      /\ na = <<>> => csvRows[a].number \notin DOMAIN numberData

---------------------------------------------------------------------------
(* End-to-end example *)

\* the rows of the example, in any order: failures on days 1, 2 and 3, a
\* success on day 4, a failure on day 35
IsEndToEndExample ==
  /\ Len(csvRows) = Len(ExampleDays)
  /\ minConsecUnsuccessful = 3
  /\ minRunSpanDays = 2
  /\ \A k \in 1..Len(csvRows) :
       /\ csvRows[k].number = "5551234567"
       /\ csvRows[k].voapps_timestamp.kind = "iso"
       /\ csvRows[k].voapps_result =
            (IF csvRows[k].voapps_timestamp.day = 4 THEN SuccessText ELSE FailureText)
  /\ {csvRows[k].voapps_timestamp.day : k \in 1..Len(csvRows)} =
       {ExampleDays[k] : k \in 1..Len(ExampleDays)}

\* C21: the analysis of the example yields totalAttempts 5, successCount 1,
\* unsuccessfulCount 4, attemptIndex 1 and consecutiveFailures 1 after the last
\* row, exactly one run (length 3, span 2 days), no recent success and the
\* label Healthy.
C21_EndToEndExample ==
  (IsEndToEndExample /\ pc = "done") =>
    LET nd == numberData["5551234567"] IN
    /\ DOMAIN numberData = {"5551234567"}
    /\ nd.totalAttempts = 5
    /\ nd.successCount = 1
    /\ nd.unsuccessfulCount = 4
    /\ nd.attemptIndex = 1
    /\ nd.consecutiveFailures = 1
    /\ Len(consecRuns) = 1
    /\ consecRuns[1].count = 3
    /\ consecRuns[1].spanDays = Num(2 * HoursPerDay)
    /\ ~RecentSuccess(nd, MaxDate(validRows))
    /\ Len(numberSummaryArray) = 1
    /\ numberSummaryArray[1].successRate = Frac(1, 5)
    /\ numberSummaryArray[1].tnHealth = "Healthy"
    /\ result.healthyCount = 1

\* the example analysed from rows handed over latest first
C21_Witness ==
  /\ IsEndToEndExample
  /\ pc = "done"
  /\ csvRows[1].voapps_timestamp.day = 35
  /\ csvRows[5].voapps_timestamp.day = 1
  /\ numberSummaryArray[1].tnHealth = "Healthy"
  /\ Len(consecRuns) = 1

---------------------------------------------------------------------------
(* Retries of an API call *)

\* C22: the delays waited between successive attempts are 3 s, 10 s and
\* 60 s, in this order: all three have elapsed when the failure is reported,
\* and a call that succeeds returns after as many calls as attempts were
\* started, each but the first preceded by its delay.
C22_RetryDelays ==
  /\ pc = "thrown" => hc.waited = <<3000, 10000, 60000>>
  /\ pc = "returned" =>
       /\ hc.calls = Len(hc.waited) + 1
       /\ hc.waited = SubSeq(<<3000, 10000, 60000>>, 1, Len(hc.waited))

---------------------------------------------------------------------------
(* Cancelling a job *)

\* the job was cancelled while it was running (suspended at an await)
CancelledWhileRunning ==
  /\ IsCancelled(TheJob)
  /\ pc \in {"page", "meta", "detail", "export", "output"}

\* C23: once /api/cancel has set cancelled for a registered job that is
\* running, the job requests no further campaign-list page and starts no
\* further campaign download, ends by a throw (of 'Cancelled' at the loop
\* boundary it reaches next) and never by returning its artifacts, and is
\* never set complete; a cancel request for an unknown job_id is answered 404
\* and changes no job.
C23_CancelStopsJob ==
  [][/\ CancelledWhileRunning =>
          /\ hc'.fetches = hc.fetches /\ hc'.downloads = hc.downloads
          /\ pc' # "returned"
          /\ jobs'[TheJob].status # "complete"
     /\ (cancelResponse' # cancelResponse
           /\ cancelResponse'.job_id \notin DOMAIN jobs) =>
          cancelResponse'.status = 404 /\ jobs' = jobs]_vars

---------------------------------------------------------------------------
(* The runs list as a union *)

\* the maximal runs of non-success attempts: those a Success ends and the
\* trailing one
MaximalRuns(att) ==
  InteriorRuns(att) \cup
    (IF HasTrailing(att) THEN {<<TrailingStart(att), Len(att)>>} ELSE {})

\* maximal runs of att with triple t, and those among them that qualify
RunsWith(att, t) ==
  Cardinality({ab \in MaximalRuns(att) : RunTriple(att, ab[1], ab[2]) = t})
QualifyingWith(att, t) ==
  Cardinality({ab \in MaximalRuns(att) :
                 Qualifies(att, ab[1], ab[2]) /\ RunTriple(att, ab[1], ab[2]) = t})

\* every triple a row or a maximal run of number n can have
AllTriplesOf(n, att) ==
  TriplesOf(n, att) \cup {RunTriple(att, ab[1], ab[2]) : ab \in MaximalRuns(att)}

HasRow(n) == \E j \in 1..Len(consecRuns) : consecRuns[j].number = n

\* C24: in the runs list every qualifying maximal run of a number has a row
\* and no maximal run has more than one (rows and runs are matched by count,
\* start and end), no row describes anything else, and a number whose final
\* consecutiveFailures is >= minConsecUnsuccessful has at least one row.
C24_RunsUnionNoDuplicates ==
  RunsBuilt =>
    \A n \in DOMAIN numberData :
       LET att == numberData[n].attempts IN
       /\ \A t \in AllTriplesOf(n, att) :
            /\ QualifyingWith(att, t) <= RowsFor(n, t)
            /\ RowsFor(n, t) <= RunsWith(att, t)
       /\ numberData[n].consecutiveFailures >= minConsecUnsuccessful => HasRow(n)

\* a trailing streak of two delivery attempts and a row without a timestamp:
\* the counter is 2, the scan has emitted the run of 3, nothing was added
C24_Witness ==
  /\ RunsBuilt
  /\ Len(consecRuns) = 1
  /\ consecRuns[1].count = 3
  /\ numberData[consecRuns[1].number].consecutiveFailures = 2
  /\ minConsecUnsuccessful = 2

---------------------------------------------------------------------------
(* Recent success *)

\* the largest parseable timestamp of the analysed rows, Null if there is none
MaxTimestamp ==
  LET ts == {validRows[k].parsedDate : k \in 1..Len(validRows)} \ {NaN} IN
  IF ts = {} THEN Null ELSE CHOOSE t \in ts : \A u \in ts : u <= t

\* number n has a Success at most 14 days before the largest timestamp
HasSuccessInWindow(n) ==
  \E k \in 1..Len(validRows) :
     /\ validRows[k].number = n
     /\ validRows[k].isSuccess
     /\ validRows[k].parsedDate # NaN
     /\ MaxTimestamp - 14 * HoursPerDay <= validRows[k].parsedDate

\* C25: the recent-success flag the classification computes for a number is
\* true exactly when the number has a Success whose timestamp is at most 14
\* days before the largest parseable timestamp of the dataset (a Success
\* exactly 14 days before it counts); without a Success it is false.
C25_RecentSuccessWindow ==
  NumbersClassified =>
    \A n \in DOMAIN numberData :
       RecentSuccess(numberData[n], MaxDate(validRows)) <=> HasSuccessInWindow(n)

---------------------------------------------------------------------------
(* Order of the attempts of a number *)

FoldOver == pc \in {"rollups", "classify", "runs", "write", "done"}

\* the analysed rows of number n, in input order
InputRowsOf(n) ==
  SelectSeq(SelectSeq(csvRows, IsValidRow), LAMBDA r : r.number = n)

\* what identifies a row among the attempts of its number
InputKey(r) ==
  <<ParseDate(r.voapps_timestamp), TrimLower(r.voapps_result),
    TsTrimNonEmpty(r.voapps_timestamp)>>
AttemptKey(a) == <<a.timestamp, a.result, a.isDeliveryAttempt>>

\* att lists rows in the order p, ascending by timestamp, rows of equal
\* timestamp in input order (two rows are compared only if both timestamps
\* parse)
IsStableSortOf(att, rows, p) ==
  /\ \A k \in 1..Len(rows) : AttemptKey(att[k]) = InputKey(rows[p[k]])
  /\ \A i, j \in 1..Len(rows) :
       (i < j /\ att[i].timestamp # NaN /\ att[j].timestamp # NaN) =>
         \/ att[i].timestamp < att[j].timestamp
         \/ att[i].timestamp = att[j].timestamp /\ p[i] < p[j]

\* C26: after the fold the attempts of every number are its input rows
\* sorted ascending by timestamp, rows of equal timestamp in input order,
\* whatever the order of the input: the result of sorting the rows of each
\* number separately.
C26_AttemptsSortedStable ==
  FoldOver =>
    \A n \in DOMAIN numberData :
       LET att == numberData[n].attempts
           rows == InputRowsOf(n) IN
       /\ Len(att) = Len(rows)
       /\ \E p \in Permutations(1..Len(rows)) : IsStableSortOf(att, rows, p)

---------------------------------------------------------------------------
(* Histograms and usage maps of a profile *)

HistogramTotal(counts) == SumOf(counts, DOMAIN counts)

\* C27: after every step of the fold, in every profile the hour histogram
\* and the day-of-week histogram each sum to totalAttempts (they count the
\* delivery attempts only), and the message, caller and account maps each
\* sum to the number of rows in attempts (they count every row).
C27_HistogramsCountAttempts ==
  \A n \in DOMAIN numberData :
     LET nd == numberData[n] IN
     /\ HistogramTotal(nd.hourCounts) = nd.totalAttempts
     /\ HistogramTotal(nd.dayOfWeekCounts) = nd.totalAttempts
     /\ HistogramTotal(nd.messageIds) = Len(nd.attempts)
     /\ HistogramTotal(nd.callerNumbers) = Len(nd.attempts)
     /\ HistogramTotal(nd.accountIds) = Len(nd.attempts)

---------------------------------------------------------------------------
(* The profiles after the fold *)

\* the last row has been folded: what runs from here is the decay curve, the
\* rollups, classification and scoring, run detection and the workbook
FoldComplete ==
  \/ pc = "fold" /\ idx = Len(validRows)
  \/ pc \in {"rollups", "classify", "runs", "write"}

\* C28: once the fold is complete, no step of the analysis (decay curve,
\* rollups, classification and scoring, run detection, workbook) changes any
\* field of any profile: attempts, counters, histograms, attemptIndex,
\* consecutiveFailures and lastSuccessTimestamp stay as the fold left them.
C28_ProfilesReadOnlyAfterFold ==
  [][FoldComplete => numberData' = numberData]_vars

\* an analysis that ran to the end over a number of several attempts, with
\* rollups, labels and at least one run computed
C28_Witness ==
  /\ pc = "done"
  /\ Len(consecRuns) >= 1
  /\ Len(numberSummaryArray) >= 1
  /\ \E n \in DOMAIN numberData :
        Len(numberData[n].attempts) >= 2 /\ numberData[n].totalAttempts >= 2

---------------------------------------------------------------------------
(* Rollups by hour, day, account, message and caller *)

\* Rollup specification: two numbers, rows with and without the account,
\* message and caller columns, rows with a whitespace-only timestamp, a row
\* on another day and hour, and a row with an unparseable timestamp.
RollupRows ==
  {RowOf(n, r, t, e[1], e[2], e[3]) :
     n \in Numbers, r \in {SuccessText, FailureText},
     t \in {TsBlank, TsIso(0, 9)},
     e \in {<<"", "", "">>, <<"m1", "c1", "a1">>}}
  \cup {RowOf("5559876543", FailureText, TsIso(1, 14), "m1", "c1", "a1"),
        RowOf("5551234567", FailureText, TsGarbage, "m1", "c1", "a1")}

InitRollups == \E rows \in SeqsUpTo(RollupRows, MaxRollupRows) : Started(rows, 2, 1)

SpecRollups == InitRollups /\ [][Next]_vars

\* the delivery-attempt rows of the dataset: the analysed rows with a
\* timestamp that is not empty after trimming
DeliveryAttemptCount ==
  Cardinality({k \in 1..Len(csvRows) :
                 /\ IsValidRow(csvRows[k])
                 /\ TsTrimNonEmpty(csvRows[k].voapps_timestamp)})

\* the sum of total over the buckets or entities of a rollup
RECURSIVE TotalOver(_, _)
TotalOver(stats, keys) ==
  IF keys = {} THEN 0
  ELSE LET k == CHOOSE x \in keys : TRUE
       IN stats[k].total + TotalOver(stats, keys \ {k})

Balanced(stats) ==
  \A k \in DOMAIN stats : stats[k].successful + stats[k].unsuccessful = stats[k].total

EntityRollupOk(stats) ==
  /\ TotalOver(stats, DOMAIN stats) = DeliveryAttemptCount
  /\ Balanced(stats)
  /\ \A k \in DOMAIN stats :
        /\ Cardinality(stats[k].uniqueNumbers) >= 1
        /\ Cardinality(stats[k].uniqueNumbers) <= stats[k].total

RollupsBuilt == pc \in {"classify", "runs", "write", "done"}
DailyBuilt == pc \in {"write", "done"}

\* C29: whenever the rollups have been built, the totals of the 24 hourly
\* buckets, of the 7 daily buckets, of all account entries, of all message
\* entries and of all caller entries each sum to the number of
\* delivery-attempt rows of the dataset; in every bucket and entity
\* successful + unsuccessful = total; every entity has at least one unique
\* number and no more unique numbers than its total.
C29_RollupConservation ==
  /\ RollupsBuilt =>
       /\ DOMAIN globalHourlyStats = 0..23
       /\ TotalOver(globalHourlyStats, 0..23) = DeliveryAttemptCount
       /\ Balanced(globalHourlyStats)
       /\ EntityRollupOk(accountStats)
       /\ EntityRollupOk(messageStats)
       /\ EntityRollupOk(callerStats)
  /\ DailyBuilt =>
       /\ DOMAIN dailyStats = 0..6
       /\ TotalOver(dailyStats, 0..6) = DeliveryAttemptCount
       /\ Balanced(dailyStats)

\* a finished analysis of three rows: two delivery attempts of different
\* accounts, messages and callers at different hours and days, and a row
\* that is no delivery attempt
C29_Witness ==
  /\ pc = "done"
  /\ Len(validRows) = 3
  /\ DeliveryAttemptCount = 2
  /\ Cardinality(DOMAIN accountStats) = 2
  /\ Cardinality(DOMAIN messageStats) = 2
  /\ Cardinality(DOMAIN callerStats) = 2
  /\ \E h \in 0..23 : globalHourlyStats[h].total = 1 /\ globalHourlyStats[h].successful = 1
  /\ \E d \in 0..6 : dailyStats[d].total = 1 /\ dailyStats[d].unsuccessful = 1

---------------------------------------------------------------------------
(* The trailing run and the consecutiveFailures counter *)

\* the number of rows after the last Success among the attempts
RECURSIVE TrailingFailures(_)
TrailingFailures(attempts) ==
  IF attempts = <<>> \/ attempts[Len(attempts)].isSuccess THEN 0
  ELSE 1 + TrailingFailures(SubSeq(attempts, 1, Len(attempts) - 1))

AllDeliveryAttempts(attempts) ==
  \A k \in 1..Len(attempts) : attempts[k].isDeliveryAttempt

\* the rows of the run scan alone
ScanRows ==
  ScanAll(numberData, Keys, numberSummaryArray, minConsecUnsuccessful,
          minRunSpanDays).runs

\* the scan's row of the trailing run of number n
IsTrailingRow(r, n) ==
  LET att == numberData[n].attempts IN
  /\ r.number = n
  /\ r.count = TrailingFailures(att)
  /\ r.runEnd = att[Len(att)].timestamp

====
